---- MODULE Spec2Model ----
(***************************************************************************)
(* Model of the bridginghub staging engine (DefaultStorageModule) and of   *)
(* the orchestrator (main.py) and module registry that drive it.           *)
(*                                                                         *)
(* Strings that the code takes apart or glues together (file names, ids,   *)
(* directory paths) are sequences of tokens; a Python dict is a sequence   *)
(* of [k, v] entries with distinct keys, in insertion order.               *)
(***************************************************************************)
EXTENDS Integers, Sequences, FiniteSets, TLC

VARIABLES
    action_detail,  \* DefaultStorageModule._action_detail: cache/archive/junk settings
    data_map,       \* keys of _data["value_register_map"], in configuration order
    dirs,           \* the directories that exist on disk
    files,          \* the files on disk: [dir, name] -> content
    pc,             \* position of the storage call in progress, "idle" between calls
    message,        \* the argument of the call in progress (a dict)
    todo,           \* the entries a running loop has not visited yet
    m,              \* the dict the running loop builds (its return value)
    mfailed,        \* store: the records marked "failed"
    mgood,          \* store: the other records
    paths,          \* store: cache_path, archive_path and junk_path as resolved
    result,         \* the last finished call: [op, arg, exc, value, snap]
    snap,           \* the files on disk when the call in progress began
    prev,           \* the call before the last one, if the last one worked on what
                    \* that call returned or was given (see Chain)
    registry,       \* BridgingHubModuleRegistry._registry
    pipe            \* outcome of the last orchestrator pass

storageVars == <<action_detail, data_map, dirs, files, pc, message, todo, m,
                 mfailed, mgood, paths, result, snap, prev>>
pipeVars == <<registry, pipe>>
vars == <<action_detail, data_map, dirs, files, pc, message, todo, m,
          mfailed, mgood, paths, result, snap, prev, registry, pipe>>

----------------------------------------------------------------------------
(* Bounds *)

\* records in one batch
MaxBatch == 2

----------------------------------------------------------------------------
(* Input domains *)

IdK == <<"k">>
IdAK == <<"a", "_", "k">>
Ids == {IdK, IdAK}
Timestamps == {"1", "2"}
Values == {"5"}

KEY_CACHE == "cache"
KEY_JUNK == "junk"
KEY_ARCHIVE == "archive"

\* BridgingHubBaseModule._custom_name defaults
TimestampName == "timestamp"
ValueName == "value"
BHStatusName == "bHstatus"

\* a directory setting: "" (unset), an absolute or a relative path
Unset == <<>>
DirC == <<"/", "c">>
DirA == <<"/", "a">>
DirJ == <<"/", "j">>
RelC == <<"c">>

\* datetime.now(timezone.utc).date().strftime("%Y/%m/%d")
Today == <<"2026", "11", "02">>

----------------------------------------------------------------------------
(* Python dicts *)

EmptyDict == <<>>

Keys(d) == {d[i].k : i \in 1..Len(d)}

Get(d, key) == (CHOOSE i \in 1..Len(d) : d[i].k = key)

Lookup(d, key) == d[Get(d, key)].v

\* d[key] = val
Put(d, key, val) ==
    IF key \in Keys(d)
    THEN [d EXCEPT ![Get(d, key)] = [k |-> key, v |-> val]]
    ELSE Append(d, [k |-> key, v |-> val])

\* dict equality ignores the insertion order
DictEq(d, e) ==
    /\ Keys(d) = Keys(e)
    /\ \A key \in Keys(d) : Lookup(d, key) = Lookup(e, key)

----------------------------------------------------------------------------
(* Records, JSON, paths *)

\* a record as a stage hands it over: timestamp, value and bH status
Rec(t, val, st) ==
    (TimestampName :> t) @@ (ValueName :> val) @@ (BHStatusName :> st)

\* v[key] = val on a record
SetField(v, key, val) == [f \in DOMAIN v \cup {key} |-> IF f = key THEN val ELSE v[f]]

FieldOrder == <<TimestampName, ValueName, BHStatusName>>

\* json.dump(v, f): the object's members as text, one [name, value] pair each
JsonDump(v) ==
    LET present == SelectSeq(FieldOrder, LAMBDA f : f \in DOMAIN v)
    IN  [complete |-> TRUE,
         text |-> [i \in 1..Len(present) |-> <<present[i], v[present[i]]>>]]

\* what open(p, "w") leaves behind when json.dump dies before writing
Truncated == [complete |-> FALSE, text |-> <<>>]

\* json.load(f) on a complete file
JsonLoad(c) ==
    [f \in {c.text[i][1] : i \in 1..Len(c.text)} |->
        c.text[CHOOSE i \in 1..Len(c.text) : c.text[i][1] = f][2]]

IsAbsolute(p) == Len(p) > 0 /\ p[1] = "/"

\* the directories mkdir(parents=True) makes sure of
Parents(p) == {SubSeq(p, 1, n) : n \in 2..Len(p)}

None == <<>>

\* _test_dir without the guard against relative paths
TestDirAnyPath(ad, ds, dir_type, sub_dir, mkdir_ok) ==
    IF ad[dir_type] # Unset
    THEN LET p == ad[dir_type] \o sub_dir
         IN  IF p \in ds \/ mkdir_ok
             THEN [exc |-> "", p |-> p, dirs |-> ds \cup Parents(p)]
             ELSE [exc |-> "DirectoryAccessException", p |-> None, dirs |-> ds]
    ELSE [exc |-> "", p |-> None, dirs |-> ds]

\* _test_dir: [exc, p, dirs]; mkdir of a missing directory fails when mkdir_ok is false
TestDir(ad, ds, dir_type, sub_dir, mkdir_ok) ==
    IF ad[dir_type] # Unset
    THEN LET p == ad[dir_type] \o sub_dir
         IN  IF IsAbsolute(p)
             THEN IF p \in ds \/ mkdir_ok
                  THEN [exc |-> "", p |-> p, dirs |-> ds \cup Parents(p)]
                  ELSE [exc |-> "DirectoryAccessException", p |-> None, dirs |-> ds]
             ELSE [exc |-> "DirectoryAccessException", p |-> None, dirs |-> ds]
    ELSE [exc |-> "", p |-> None, dirs |-> ds]

\* _name_file taking the value of the record for the file name
NameFileByValue(dir, message_id, message_content) ==
    [dir |-> dir,
     name |-> <<message_content[ValueName], "_">> \o message_id \o <<".json">>]

\* _name_file: <dir>/<timestamp>_<message_id>.json
NameFile(dir, message_id, message_content) ==
    [dir |-> dir,
     name |-> <<message_content[TimestampName], "_">> \o message_id \o <<".json">>]

IsSuffix(s, t) == Len(s) <= Len(t) /\ SubSeq(t, Len(t) - Len(s) + 1, Len(t)) = s

\* Path(d).glob(f"*_{k}.json") on one file of d
GlobMatch(k, name) == IsSuffix(<<"_">> \o k \o <<".json">>, name)

FilesIn(fs, d) == {f \in DOMAIN fs : f.dir = d}

\* open(p, "w") ... json.dump: the file is created or replaced
WriteFile(fs, p, c) == [f \in DOMAIN fs \cup {p} |-> IF f = p THEN c ELSE fs[f]]

\* an unlink that leaves the file where it is
UnlinkNothing(fs, p) == fs

\* f.unlink()
Unlink(fs, p) == [f \in DOMAIN fs \ {p} |-> fs[f]]

----------------------------------------------------------------------------
(* Inputs *)

Recs(T, S) == {Rec(t, val, st) : t \in T, val \in Values, st \in S}

\* the dicts of at most MaxBatch records with timestamps in T and statuses in S
Batches(T, S) ==
    UNION {{b \in [1..n -> [k : Ids, v : Recs(T, S)]] :
                \A i, j \in 1..n : i # j => b[i].k # b[j].k} : n \in 0..MaxBatch}

\* what the stages hand to the storage module
CollectedBatches == Batches(Timestamps, {"in"})
StagedBatches == Batches(Timestamps, {"cached"})
FirstBatches == Batches({"1"}, {"in"})
SentBatches == Batches({"1"}, {"out", "failed"})

\* mkdir can only fail for a directory that is not there yet
MkdirOutcomes(dir_type, sub_dir) ==
    IF action_detail[dir_type] # Unset /\ IsAbsolute(action_detail[dir_type])
          /\ (action_detail[dir_type] \o sub_dir) \notin dirs
    THEN BOOLEAN
    ELSE {TRUE}

DataMaps == {<<IdK>>, <<IdK, IdAK>>}

NoResult == [op |-> "", arg |-> EmptyDict, exc |-> "", value |-> EmptyDict, snap |-> <<>>]

NoPaths == [cache |-> None, archive |-> None, junk |-> None]

----------------------------------------------------------------------------
(* Finishing a call *)

\* the call in progress returns value, or raises exc
Finish(op, exc, value) ==
    /\ pc' = "idle"
    /\ UNCHANGED prev
    /\ result' = [op |-> op, arg |-> message, exc |-> exc, value |-> value, snap |-> snap]
    /\ todo' = EmptyDict
    /\ m' = EmptyDict
    /\ mfailed' = EmptyDict
    /\ mgood' = EmptyDict
    /\ paths' = NoPaths
    /\ message' = EmptyDict
    /\ snap' = <<>>

\* a call that ends in the step that began it
\* the call that is beginning follows up on the call that has just finished:
\* clean_cache(arg) after a write_cache that returned arg or after a
\* clean_cache of arg, read_cache after a write_cache
Chain(op, arg) ==
    IF /\ result.exc = ""
       /\ \/ op = "clean_cache" /\ result.op = "write_cache" /\ arg = result.value
          \/ op = "clean_cache" /\ result.op = "clean_cache" /\ arg = result.arg
          \/ op = "read_cache" /\ result.op = "write_cache"
    THEN result
    ELSE NoResult

Immediate(op, arg, exc, value) ==
    /\ pc' = "idle"
    /\ result' = [op |-> op, arg |-> arg, exc |-> exc, value |-> value, snap |-> files]
    /\ prev' = Chain(op, arg)
    /\ UNCHANGED <<message, todo, m, mfailed, mgood, paths, snap>>

----------------------------------------------------------------------------
(* write_cache *)

\* write_cache up to the first file: _test_dir, then _write_files(message, d, "cached")
CallWriteCache(arg, mkdir_ok) ==
    /\ pc = "idle"
    /\ LET d == TestDir(action_detail, dirs, KEY_CACHE, <<>>, mkdir_ok)
       IN  /\ dirs' = d.dirs
           /\ IF d.exc # ""
              THEN Immediate("write_cache", arg, "StorageModuleException", EmptyDict)
              ELSE IF d.p = None \/ arg = EmptyDict
              THEN Immediate("write_cache", arg, "", EmptyDict)
              ELSE /\ pc' = "write_cache"
                   /\ message' = arg
                   /\ snap' = files
                   /\ todo' = arg
                   /\ m' = EmptyDict
                   /\ paths' = [NoPaths EXCEPT !.cache = d.p]
                   /\ result' = NoResult
                   /\ prev' = NoResult
                   /\ UNCHANGED <<mfailed, mgood>>
    /\ UNCHANGED <<action_detail, data_map, files, pipeVars>>

----------------------------------------------------------------------------
(* _write_files, one record per step *)

WritePhases == {"write_cache", "store_junk", "store_archive",
                "store_nc_junk", "store_nc_archive"}

CleanPhases == {"clean_cache", "store_junk_clean", "store_archive_clean"}

OpOf(phase) ==
    CASE phase = "write_cache" -> "write_cache"
      [] phase = "clean_cache" -> "clean_cache"
      [] OTHER -> "store"

\* the directory argument of the _write_files call of a phase
WriteDir(phase) ==
    CASE phase = "write_cache" -> paths.cache
      [] phase \in {"store_junk", "store_nc_junk"} -> paths.junk
      [] OTHER -> paths.archive

\* _write_files stamping the status of the archive in the junk directory too
WriteStatusDone(phase) ==
    CASE phase = "write_cache" -> "cached"
      [] OTHER -> "done"

\* the status argument of the _write_files call of a phase
WriteStatus(phase) ==
    CASE phase = "write_cache" -> "cached"
      [] phase \in {"store_junk", "store_nc_junk"} -> "broken"
      [] OTHER -> "done"

JunkPhases == {"store_junk", "store_junk_clean", "store_nc_junk"}

\* store with each clean_cache moved in front of its _write_files
StorePlanCleanFirst(cached) ==
    IF cached
    THEN <<"store_junk_clean", "store_junk", "store_archive_clean", "store_archive">>
    ELSE <<"store_nc_junk", "store_nc_archive">>

\* the statements of store after the split, in the order the code runs them:
\* with a cache path write junk, clean, write archive, clean; without one
\* write junk, write archive
StorePlan(cached) ==
    IF cached
    THEN <<"store_junk", "store_junk_clean", "store_archive", "store_archive_clean">>
    ELSE <<"store_nc_junk", "store_nc_archive">>

PlanOf(phase) ==
    CASE phase = "write_cache" -> <<"write_cache">>
      [] phase = "clean_cache" -> <<"clean_cache">>
      [] OTHER -> StorePlan(paths.cache # None)

\* the dict a phase of store loops over
PhaseInput(phase, mf, mg) == IF phase \in JunkPhases THEN mf ELSE mg

\* the phases of plan that still have something to do, mf and mg being the split
Pending(plan, mf, mg) == SelectSeq(plan, LAMBDA ph : PhaseInput(ph, mf, mg) # EmptyDict)

\* what is left of plan after phase
After(plan, phase) ==
    SubSeq(plan, (CHOOSE i \in 1..Len(plan) : plan[i] = phase) + 1, Len(plan))

\* the loop of the phase in progress is through: go on with the next statement
\* of the call, or return (value for write_cache and clean_cache, m for store)
Proceed(value, mf, mg) ==
    LET rest == Pending(After(PlanOf(pc), pc), mf, mg)
    IN  IF rest = <<>>
        THEN Finish(OpOf(pc), "", IF OpOf(pc) = "store" THEN mg ELSE value)
        ELSE /\ pc' = Head(rest)
             /\ todo' = PhaseInput(Head(rest), mf, mg)
             /\ m' = EmptyDict
             /\ mfailed' = mf
             /\ mgood' = mg
             /\ UNCHANGED <<paths, result, prev, message, snap>>

WriteOutcomes == {"written", "open_fails", "dump_fails"}

\* one iteration of the loop of _write_files; an exception ends the call
WriteFilesStep(outcome) ==
    /\ pc \in WritePhases
    /\ todo # EmptyDict
    /\ LET k == Head(todo).k
           v == SetField(Head(todo).v, BHStatusName, WriteStatus(pc))
           p == NameFile(WriteDir(pc), k, v)
           m1 == Put(m, k, v)
           mf1 == IF pc \in {"store_junk", "store_nc_junk"} THEN Put(mfailed, k, v) ELSE mfailed
           mg1 == IF pc \in {"store_archive", "store_nc_archive"} THEN Put(mgood, k, v) ELSE mgood
       IN  IF outcome # "written"
           THEN /\ files' = IF outcome = "dump_fails" THEN WriteFile(files, p, Truncated) ELSE files
                /\ Finish(OpOf(pc), "StorageModuleException", EmptyDict)
           ELSE /\ files' = WriteFile(files, p, JsonDump(v))
                /\ IF Tail(todo) # EmptyDict
                   THEN /\ todo' = Tail(todo)
                        /\ m' = m1
                        /\ mfailed' = mf1
                        /\ mgood' = mg1
                        /\ UNCHANGED <<pc, paths, result, prev, message, snap>>
                   ELSE Proceed(m1, mf1, mg1)
    /\ UNCHANGED <<action_detail, data_map, dirs, pipeVars>>

----------------------------------------------------------------------------
(* clean_cache, one record per step *)

\* an iteration of the loop of clean_cache that empties the cache directory
CleanCacheStepWholeDirectory ==
    /\ pc \in CleanPhases
    /\ todo # EmptyDict
    /\ LET k == Head(todo).k
           v == Head(todo).v
           f == NameFile(paths.cache, k, v)
           m1 == Put(m, k, v)
       IN  IF f \notin DOMAIN files
           THEN /\ Finish(OpOf(pc), "StorageModuleException", EmptyDict)
                /\ UNCHANGED files
           ELSE /\ files' = [g \in DOMAIN files \ FilesIn(files, paths.cache) |-> files[g]]
                /\ IF Tail(todo) # EmptyDict
                   THEN /\ todo' = Tail(todo)
                        /\ m' = m1
                        /\ UNCHANGED <<pc, mfailed, mgood, paths, result, prev, message, snap>>
                   ELSE Proceed(m1, mfailed, mgood)
    /\ UNCHANGED <<action_detail, data_map, dirs, pipeVars>>

\* one iteration of the loop of clean_cache; unlink of a missing file raises
CleanCacheStep ==
    /\ pc \in CleanPhases
    /\ todo # EmptyDict
    /\ LET k == Head(todo).k
           v == Head(todo).v
           f == NameFile(paths.cache, k, v)
           m1 == Put(m, k, v)
       IN  IF f \notin DOMAIN files
           THEN /\ Finish(OpOf(pc), "StorageModuleException", EmptyDict)
                /\ UNCHANGED files
           ELSE /\ files' = Unlink(files, f)
                /\ IF Tail(todo) # EmptyDict
                   THEN /\ todo' = Tail(todo)
                        /\ m' = m1
                        /\ UNCHANGED <<pc, mfailed, mgood, paths, result, prev, message, snap>>
                   ELSE Proceed(m1, mfailed, mgood)
    /\ UNCHANGED <<action_detail, data_map, dirs, pipeVars>>

\* clean_cache up to the first unlink
CallCleanCache(arg, mkdir_ok) ==
    /\ pc = "idle"
    /\ LET d == TestDir(action_detail, dirs, KEY_CACHE, <<>>, mkdir_ok)
       IN  /\ dirs' = d.dirs
           /\ IF d.exc # ""
              THEN Immediate("clean_cache", arg, "StorageModuleException", EmptyDict)
              ELSE IF d.p = None \/ arg = EmptyDict
              THEN Immediate("clean_cache", arg, "", EmptyDict)
              ELSE /\ pc' = "clean_cache"
                   /\ message' = arg
                   /\ snap' = files
                   /\ todo' = arg
                   /\ m' = EmptyDict
                   /\ paths' = [NoPaths EXCEPT !.cache = d.p]
                   /\ prev' = Chain("clean_cache", arg)
                   /\ result' = NoResult
                   /\ UNCHANGED <<mfailed, mgood>>
    /\ UNCHANGED <<action_detail, data_map, files, pipeVars>>

----------------------------------------------------------------------------
(* read_cache *)

\* the orders in which a directory listing can enumerate the files of S
Listings(S) ==
    {l \in [1..Cardinality(S) -> S] : \A i, j \in 1..Cardinality(S) : i # j => l[i] # l[j]}

\* _find_cached: for every key of the value_register_map the matches of its
\* glob, in the order of the directory listing ls
FindCached(d, ls) ==
    [i \in 1..Len(data_map) |->
        [k |-> data_map[i],
         v |-> SelectSeq(ls, LAMBDA f : GlobMatch(data_map[i], f.name))]]

\* the loop of read_cache over c: open(c[k][0]) and json.load
ReadFound(c) ==
    IF \E i \in 1..Len(c) : c[i].v = <<>> \/ ~files[c[i].v[1]].complete
    THEN [exc |-> "StorageModuleException", value |-> EmptyDict]
    ELSE [exc |-> "", value |-> [i \in 1..Len(c) |->
                                    [k |-> c[i].k, v |-> JsonLoad(files[c[i].v[1]])]]]

\* read_cache, whole: it changes nothing but the directory _test_dir creates
CallReadCache(ls, mkdir_ok) ==
    /\ pc = "idle"
    /\ LET d == TestDir(action_detail, dirs, KEY_CACHE, <<>>, mkdir_ok)
       IN  /\ dirs' = d.dirs
           /\ IF d.exc # ""
              THEN Immediate("read_cache", EmptyDict, "StorageModuleException", EmptyDict)
              ELSE IF d.p = None
              THEN Immediate("read_cache", EmptyDict, "", EmptyDict)
              ELSE /\ ls \in Listings(FilesIn(files, d.p))
                   /\ LET r == ReadFound(FindCached(d.p, ls))
                      IN  Immediate("read_cache", EmptyDict, r.exc, r.value)
    /\ UNCHANGED <<action_detail, data_map, files, pipeVars>>

----------------------------------------------------------------------------
(* store *)

IsFailed(e) == e.v[BHStatusName] = "failed"

\* store, the archive path when only a junk path is set
ArchivePath(a, j) == IF a # None THEN a ELSE j

\* store leaving the junk path unset when only an archive path is set
JunkPathUnset(a, j) == j

\* store, the junk path when only an archive path is set
JunkPath(a, j) == IF j # None THEN j ELSE a

\* store up to the first file: the three _test_dir calls, the fallback of an
\* unset archive or junk path to the other one, and the split by status
CallStore(arg, ok) ==
    /\ pc = "idle"
    /\ LET c == TestDir(action_detail, dirs, KEY_CACHE, <<>>, ok[KEY_CACHE])
           a == TestDir(action_detail, c.dirs, KEY_ARCHIVE, Today, ok[KEY_ARCHIVE])
           j == TestDir(action_detail, a.dirs, KEY_JUNK, <<>>, ok[KEY_JUNK])
           archive_path == ArchivePath(a.p, j.p)
           junk_path == JunkPath(a.p, j.p)
           failed == SelectSeq(arg, IsFailed)
           good == SelectSeq(arg, LAMBDA e : ~IsFailed(e))
           plan == Pending(StorePlan(c.p # None), failed, good)
       IN  IF c.exc # ""
           THEN dirs' = c.dirs /\ Immediate("store", arg, "StorageModuleException", EmptyDict)
           ELSE IF a.exc # ""
           THEN dirs' = a.dirs /\ Immediate("store", arg, "StorageModuleException", EmptyDict)
           ELSE IF j.exc # ""
           THEN dirs' = j.dirs /\ Immediate("store", arg, "StorageModuleException", EmptyDict)
           ELSE /\ dirs' = j.dirs
                /\ IF (a.p = None /\ j.p = None) \/ plan = <<>>
                   THEN Immediate("store", arg, "", EmptyDict)
                   ELSE /\ pc' = Head(plan)
                        /\ message' = arg
                        /\ snap' = files
                        /\ todo' = PhaseInput(Head(plan), failed, good)
                        /\ m' = EmptyDict
                        /\ mfailed' = failed
                        /\ mgood' = good
                        /\ paths' = [cache |-> c.p, archive |-> archive_path, junk |-> junk_path]
                        /\ result' = NoResult
                        /\ prev' = NoResult
    /\ UNCHANGED <<action_detail, data_map, files, pipeVars>>

\* the process dies inside a call: whatever is on disk stays as it is
Crash ==
    /\ pc # "idle"
    /\ Finish(OpOf(pc), "crash", EmptyDict)
    /\ UNCHANGED <<action_detail, data_map, dirs, files, pipeVars>>

----------------------------------------------------------------------------
(* The module registry (bridging_hub_module.py) *)

\* the class attributes of BridgingHubBaseModule
ClassAttributes ==
    [KEY_BRIDGE |-> "bridge", KEY_CLEANUP |-> "cleanup", KEY_INPUT |-> "input",
     KEY_OUTPUT |-> "output", KEY_FILTER |-> "filter", KEY_STORAGE |-> "storage",
     KEY_DATA |-> "_data", KEY_ACTION_TYPES |-> <<"bridge", "input", "output">>,
     KEY_MODULE_NAME |-> "module_class_name", KEY_MODULE_PATH |-> "module_path",
     KEY_MODULE_TYPE |-> "module_type", KEY_TYPE_SPLIT |-> ":",
     KEY_ACTION_SUBSCRIBE |-> "module_subscription",
     KEY_BH_STATUS_NAME |-> "bHstatus_name",
     KEY_DATA_VALUE_MAP |-> "value_register_map",
     KEY_GEOHASH_NAME |-> "geohash_name", KEY_ID_NAME |-> "id_name",
     KEY_LOCATION_NAME |-> "location_name", KEY_TIMESTAMP_NAME |-> "timestamp_name",
     KEY_DATETIME_NAME |-> "datetime_name",
     KEY_DATETIME_FORMAT_NAME |-> "datetime_format_name",
     KEY_TYPE_NAME |-> "type_name", KEY_VALUE_NAME |-> "value_name",
     KEY_UNIT_NAME |-> "unit_name", DEFAULT_ACTION_MODULE_PATH |-> "module",
     action_type |-> "", the_name |-> ""]

\* BridgingHubBaseModule.<name> raises AttributeError unless the class has it
HasAttribute(name) == name \in DOMAIN ClassAttributes

Attribute(name) == ClassAttributes[name]

\* the python modules that import_module finds and the names each defines:
\* the action_type of a module class, "" for a name that is no module class
PyModules ==
    [stdin_collector |-> [StdinCollector |-> "input", InputModuleException |-> ""],
     stdout_sender |-> [StdoutSender |-> "output"]]

\* what is registered: <<module_class_name, module_path>>
Registrations ==
    {<<"StdinCollector", "stdin_collector">>, <<"StdoutSender", "stdout_sender">>,
     <<"StdoutSender", "stdin_collector">>, <<"StdinCollector", "missing">>}
Segments == {"default", "other"}

\* a section of the config file: a dict, a string, or no such key
Absent == [type |-> "absent", items |-> EmptyDict]
AString == [type |-> "str", items |-> EmptyDict]

Section(module_class_name, module_path) ==
    [type |-> "dict",
     items |-> <<[k |-> "module_class_name", v |-> module_class_name],
                 [k |-> "module_path", v |-> module_path]>>]

DataSection(map) ==
    [type |-> "dict", items |-> <<[k |-> "value_register_map", v |-> map]>>]

\* the truth value of a section that is there
Truthy(section) ==
    \/ section.type = "str"
    \/ section.type = "dict" /\ section.items # EmptyDict

\* no callable: the None a dispatch returns
NoCallable == [seg |-> "", method |-> ""]

\* the keys of _custom_name, in the order __init__ puts them
CustomNameKeys ==
    <<"bHstatus_name", "geohash_name", "id_name", "location_name",
      "timestamp_name", "datetime_name", "datetime_format_name", "type_name",
      "value_name", "unit_name">>

\* no module object; its fields are the ones __init__ starts an object with.
\* custom_name holds the names configure has set: a key that is not in it
\* has the default __init__ gave it
NoModule ==
    [cls |-> "", action_type |-> "", the_name |-> "", data |-> Absent,
     action_detail |-> Absent, subscription |-> <<>>,
     custom_name |-> EmptyDict]

Unregistered == [module_path |-> "", module_name |-> "", module_object |-> NoModule]

EmptyRegistry == [n \in Segments |-> Unregistered]

Raised(exc, reg) == [exc |-> exc, obj |-> NoModule, reg |-> reg]

\* load_module constructing a module at every call
RegistryLoadModuleAnew(reg, segment_name, module_class_name) ==
    LET n == segment_name IN
    IF reg[n] = Unregistered \/ reg[n].module_path \notin DOMAIN PyModules
    THEN Raised("NoSuchModuleException", reg)
    ELSE LET o == [NoModule EXCEPT !.cls = reg[n].module_name,
                                   !.action_type = PyModules[reg[n].module_path][reg[n].module_name],
                                   !.the_name = segment_name]
         IN [exc |-> "", obj |-> o, reg |-> [reg EXCEPT ![n].module_object = o]]

\* BridgingHubModuleRegistry.load_module
RegistryLoadModule(reg, segment_name, module_class_name) ==
    LET n == segment_name IN
    IF reg[n] = Unregistered
    THEN Raised("NoSuchModuleException", reg)
    ELSE IF reg[n].module_object # NoModule
    THEN [exc |-> "", obj |-> reg[n].module_object, reg |-> reg]
    ELSE IF reg[n].module_path \notin DOMAIN PyModules
    THEN Raised("NoSuchModuleException", reg)
    ELSE LET pymod == PyModules[reg[n].module_path] IN
         IF module_class_name \notin DOMAIN pymod
         THEN Raised("AttributeError", reg)
         ELSE IF pymod[module_class_name] = ""
         THEN Raised("NoSuchModuleException", reg)
         ELSE LET o == [cls |-> module_class_name,
                        action_type |-> pymod[module_class_name],
                        the_name |-> segment_name,
                        data |-> Absent,
                        action_detail |-> Absent,
                        subscription |-> <<>>,
                        custom_name |-> EmptyDict]
              IN [exc |-> "", obj |-> o,
                  reg |-> [reg EXCEPT ![n].module_object = o]]

\* BridgingHubModuleRegistry.register_module
RegisterModule(reg, segment_name, module_class_name, module_path) ==
    LET n == segment_name
        reg1 == IF reg[n] = Unregistered
                THEN [reg EXCEPT ![n] = [module_path |-> module_path,
                                         module_name |-> module_class_name,
                                         module_object |-> NoModule]]
                ELSE reg
    IN RegistryLoadModule(reg1, segment_name, module_class_name)

\* a value a data section gives a custom name: its type and its text, the
\* text being empty for '' and for []
NameValue(type, text) == [type |-> type, text |-> text]

\* the keys of _custom_name as a set
CustomNameKeySet == {CustomNameKeys[j] : j \in 1..Len(CustomNameKeys)}

\* the keys of _custom_name the data section holds, in the order of
\* _custom_name: the keys the loop of configure acts on (none of them when
\* the section is no dict or holds no such key)
CustomNamesIn(data) ==
    IF data.type # "dict" \/ Keys(data.items) \cap CustomNameKeySet = {}
    THEN <<>>
    ELSE SelectSeq(CustomNameKeys, LAMBDA k : k \in Keys(data.items))

\* the loop of configure over the keys of _custom_name, ks being the keys of
\* the data section it has still to visit: a true value sets the name, and a
\* value that is no str ends the loop with the exception
RECURSIVE SetCustomNames(_, _, _)
SetCustomNames(names, data, ks) ==
    IF ks = <<>>
    THEN [exc |-> "", names |-> names]
    ELSE IF Lookup(data.items, Head(ks)).text = ""
    THEN SetCustomNames(names, data, Tail(ks))
    ELSE IF Lookup(data.items, Head(ks)).type # "str"
    THEN [exc |-> "BrokenConfigException", names |-> names]
    ELSE SetCustomNames(Put(names, Head(ks), Lookup(data.items, Head(ks)).text),
                        data, Tail(ks))

\* the second part of configure taking an empty section of the own type for
\* a section
ConfigureAnyActionDetail(obj, config, n) ==
    LET o == [obj EXCEPT !.data = config["_data"], !.custom_name = n.names] IN
    IF n.exc # ""
    THEN [exc |-> n.exc, obj |-> o]
    ELSE IF config[obj.action_type].type # "absent"
    THEN [exc |-> "", obj |-> [o EXCEPT !.action_detail = config[obj.action_type]]]
    ELSE [exc |-> "BrokenConfigException", obj |-> o]

\* configure from the loop over the custom names on, n being the outcome of
\* the loop: _data is set, the loop may have raised, and the section of the
\* own type has to be there
ConfigureActionDetail(obj, config, n) ==
    LET o == [obj EXCEPT !.data = config["_data"], !.custom_name = n.names] IN
    IF n.exc # ""
    THEN [exc |-> n.exc, obj |-> o]
    ELSE IF config[obj.action_type].type # "absent" /\ Truthy(config[obj.action_type])
    THEN [exc |-> "", obj |-> [o EXCEPT !.action_detail = config[obj.action_type]]]
    ELSE [exc |-> "BrokenConfigException", obj |-> o]

\* BridgingHubBaseModule.configure
Configure(obj, config) ==
    IF ~(config["_data"].type # "absent" /\ Truthy(config["_data"]))
    THEN [exc |-> "BrokenConfigException", obj |-> obj]
    ELSE ConfigureActionDetail(obj, config,
                               SetCustomNames(obj.custom_name, config["_data"],
                                              CustomNamesIn(config["_data"])))

----------------------------------------------------------------------------
(* The orchestrator (main.py) *)

\* the exceptions load_module turns into a ModuleLoaderException
LoaderCaught == {"AssertionError", "DuplicatedModuleException",
                 "NoSuchModuleException", "BrokenConfigException"}

Wrap(exc, caught, as) == IF exc \in caught THEN as ELSE exc

\* main.load_module, for sections whose values are strings
LoadModule(config, action_name, segment_name, reg) ==
    LET ac == config[action_name] IN
    IF ac.type = "absent"
    THEN Raised("KeyError", reg)
    ELSE IF ac.type # "dict"
    THEN Raised(Wrap("AssertionError", LoaderCaught, "ModuleLoaderException"), reg)
    ELSE IF ~HasAttribute("KEY_ACTION_MODULE_NAME")
    THEN Raised(Wrap("AttributeError", LoaderCaught, "ModuleLoaderException"), reg)
    ELSE IF Attribute("KEY_ACTION_MODULE_NAME") \notin Keys(ac.items)
    THEN Raised("KeyError", reg)
    ELSE IF ~HasAttribute("KEY_ACTION_MODULE_PATH")
    THEN Raised(Wrap("AttributeError", LoaderCaught, "ModuleLoaderException"), reg)
    ELSE IF Attribute("KEY_ACTION_MODULE_PATH") \notin Keys(ac.items)
    THEN Raised("KeyError", reg)
    ELSE LET mn == Lookup(ac.items, Attribute("KEY_ACTION_MODULE_NAME"))
             mp == Lookup(ac.items, Attribute("KEY_ACTION_MODULE_PATH"))
             r == RegisterModule(reg, segment_name, mn, mp)
         IN IF r.exc # ""
            THEN Raised(Wrap(r.exc, LoaderCaught, "ModuleLoaderException"), r.reg)
            ELSE IF r.obj.action_type # action_name
            THEN Raised(Wrap("BrokenConfigException", LoaderCaught,
                             "ModuleLoaderException"), r.reg)
            ELSE LET c == Configure(r.obj, config)
                     reg2 == [r.reg EXCEPT ![segment_name].module_object = c.obj]
                 IN [exc |-> Wrap(c.exc, LoaderCaught, "ModuleLoaderException"),
                     obj |-> IF c.exc = "" THEN c.obj ELSE NoModule,
                     reg |-> reg2]

\* StdoutSender.send: every record comes back, stamped "out"
Send(msg) == [i \in 1..Len(msg) |-> [k |-> msg[i].k, v |-> SetField(msg[i].v, BHStatusName, "out")]]

\* the locals of run_module_pipe_old, and the calls it has made to the stages
PassStart(reg) ==
    [exc |-> "", reg |-> reg, ri |-> EmptyDict, ro |-> EmptyDict, calls |-> <<>>]

\* run_module_pipe_old, the storage section: the section is read through
\* BridgingHubBaseModule.KEY_ACTION_MODULE_NAME and handed to load_module.
\* No storage class of the repository can be constructed (DefaultStorageModule
\* leaves write_buffer, read_buffer and clean_buffer abstract), so s is None
\* on every path that goes on: the isinstance(s, StorageBaseModule) branches
\* are never taken and rc stays {}.
StorageStage(st, config) ==
    IF config["storage"].type = "absent" \/ ~Truthy(config["storage"])
    THEN st
    ELSE IF ~HasAttribute("KEY_ACTION_MODULE_NAME")
    THEN [st EXCEPT !.exc = "AttributeError"]
    ELSE IF Attribute("KEY_ACTION_MODULE_NAME") \notin Keys(config["storage"].items)
    THEN st
    ELSE LET l == LoadModule(config, "storage", "default", st.reg) IN
         [st EXCEPT !.exc = IF l.exc = "" THEN "TypeError" ELSE l.exc, !.reg = l.reg]

\* run_module_pipe_old, the input part; b is what the input module collects
InputStage(st, action_name, config, b) ==
    IF st.exc # ""
    THEN st
    ELSE IF action_name \in {"bridge", "input"}
    THEN LET l == LoadModule(config, "input", "default", st.reg) IN
         IF l.exc # ""
         THEN [st EXCEPT !.exc = l.exc, !.reg = l.reg]
         ELSE LET called == [st EXCEPT !.reg = l.reg, !.ri = b,
                                       !.calls = Append(@, [stage |-> "input", arg |-> EmptyDict])]
              IN IF {e : e \in Keys(Lookup(config["_data"].items, "value_register_map"))} # Keys(b)
                 THEN [called EXCEPT !.exc = "InputModuleException"]
                 ELSE called
    ELSE IF action_name = "output"
    THEN [st EXCEPT !.ri = config["_data"].items]
    ELSE st

\* run_module_pipe_old, the output part
OutputStage(st, action_name, config) ==
    IF st.exc # ""
    THEN st
    ELSE IF action_name \in {"bridge", "output"}
    THEN LET l == LoadModule(config, "output", "default", st.reg) IN
         IF l.exc # ""
         THEN [st EXCEPT !.exc = l.exc, !.reg = l.reg]
         ELSE IF st.ri = EmptyDict
         THEN [st EXCEPT !.reg = l.reg]
         ELSE IF action_name = "output"
         THEN [st EXCEPT !.reg = l.reg, !.exc = "KeyError",
                         !.calls = Append(@, [stage |-> "output", arg |-> st.ri])]
         ELSE [st EXCEPT !.reg = l.reg, !.ro = Send(st.ri),
                         !.calls = Append(@, [stage |-> "output", arg |-> st.ri])]
    ELSE IF action_name = "cleanup"
    THEN [st EXCEPT !.exc = "BrokenConfigException"]
    ELSE st

\* run_module_pipe_old, the input part when the input() of the module raises
\* InputModuleException
InputStageRaising(st, action_name, config) ==
    IF st.exc # ""
    THEN st
    ELSE IF action_name \in {"bridge", "input"}
    THEN LET l == LoadModule(config, "input", "default", st.reg) IN
         IF l.exc # ""
         THEN [st EXCEPT !.exc = l.exc, !.reg = l.reg]
         ELSE [st EXCEPT !.reg = l.reg, !.exc = "InputModuleException",
                         !.calls = Append(@, [stage |-> "input", arg |-> EmptyDict])]
    ELSE InputStage(st, action_name, config, EmptyDict)

\* the exceptions run_module_pipe_old turns into a ModulePipeException
PipeCaught == {"ModuleLoaderException", "InputModuleException"}

\* run_module_pipe_old(action_name, config)
RunOld(action_name, config, b, reg) ==
    LET st == OutputStage(InputStage(StorageStage(PassStart(reg), config),
                                     action_name, config, b),
                          action_name, config)
    IN [st EXCEPT !.exc = Wrap(@, PipeCaught, "ModulePipeException")]

\* run_module_pipe_old(action_name, config) with an input module that raises
RunOldInputRaising(action_name, config, reg) ==
    LET st == OutputStage(InputStageRaising(StorageStage(PassStart(reg), config),
                                            action_name, config),
                          action_name, config)
    IN [st EXCEPT !.exc = Wrap(@, PipeCaught, "ModulePipeException")]

NoConfig == [input |-> Absent, output |-> Absent, storage |-> Absent, _data |-> Absent]

NoPass ==
    [op |-> "", action_name |-> "", config |-> NoConfig, batch |-> EmptyDict,
     exc |-> "", calls |-> <<>>, obj |-> NoModule, value |-> NoCallable,
     args |-> <<>>]

\* a direct call of BridgingHubModuleRegistry.register_module
CallRegisterModule(segment_name, module_class_name, module_path) ==
    /\ pc = "idle"
    /\ LET r == RegisterModule(registry, segment_name, module_class_name, module_path) IN
        /\ registry' = r.reg
        /\ pipe' = [NoPass EXCEPT !.op = "register_module", !.exc = r.exc, !.obj = r.obj,
                                  !.args = <<segment_name, module_class_name, module_path>>]
    /\ UNCHANGED storageVars

\* a direct call of main.load_module
CallLoadModule(config, action_name, segment_name) ==
    /\ pc = "idle"
    /\ LET l == LoadModule(config, action_name, segment_name, registry) IN
        /\ registry' = l.reg
        /\ pipe' = [NoPass EXCEPT !.op = "load_module", !.action_name = action_name,
                                  !.config = config, !.exc = l.exc, !.obj = l.obj,
                                  !.args = <<segment_name>>]
    /\ UNCHANGED storageVars

\* one pass of the orchestrator
RunModulePipeOld(action_name, config, b) ==
    /\ pc = "idle"
    /\ \E r \in {RunOld(action_name, config, b, registry)} :
        /\ registry' = r.reg
        /\ pipe' = [NoPass EXCEPT !.op = "run_module_pipe_old",
                                  !.action_name = action_name,
                                  !.config = config,
                                  !.batch = b,
                                  !.exc = r.exc,
                                  !.calls = r.calls]
    /\ UNCHANGED storageVars

\* one pass of the orchestrator in which reading the input fails
RunModulePipeOldInputRaising(action_name, config) ==
    /\ pc = "idle"
    /\ \E r \in {RunOldInputRaising(action_name, config, registry)} :
        /\ registry' = r.reg
        /\ pipe' = [NoPass EXCEPT !.op = "run_module_pipe_old",
                                  !.action_name = action_name,
                                  !.config = config,
                                  !.exc = r.exc,
                                  !.calls = r.calls,
                                  !.args = <<"input raises">>]
    /\ UNCHANGED storageVars

\* the entries of a config of major version 1 or later: its sections and
\* the version entry that selects run_module_pipe
VersionKey == "_bridgingHub_major_version"

ConfigEntries == {"input", "output", "storage", "_data", VersionKey}

\* pipe_config["type"] fails for this entry of the config: the version entry
\* and a string are no dicts, a dict section may lack the key
LacksType(config, entry) ==
    IF entry = VersionKey
    THEN TRUE
    ELSE /\ config[entry] # Absent
         /\ config[entry].type = "dict" => "type" \notin Keys(config[entry].items)

\* run_module_pipe(action_name, config), the entry point of configs of major
\* version 1 or later: it prints the config and the type of each entry.
\* stop is the first entry of the file without a type; no module is loaded
\* and no stage is invoked.
RunModulePipe(action_name, config, stop) ==
    /\ pc = "idle"
    /\ LacksType(config, stop)
    /\ registry' = registry
    /\ pipe' = [NoPass EXCEPT !.op = "run_module_pipe",
                              !.action_name = action_name,
                              !.config = config,
                              !.exc = IF stop = VersionKey THEN "TypeError"
                                      ELSE IF config[stop].type = "dict"
                                      THEN "KeyError" ELSE "TypeError"]
    /\ UNCHANGED storageVars

----------------------------------------------------------------------------
(* The staging engine *)

CacheConfigs ==
    {(KEY_CACHE :> c) @@ (KEY_ARCHIVE :> Unset) @@ (KEY_JUNK :> Unset) :
        c \in {Unset, DirC, RelC}}

StoreConfigs ==
    {(KEY_CACHE :> c) @@ (KEY_ARCHIVE :> a) @@ (KEY_JUNK :> j) :
        c \in {Unset, DirC}, a \in {Unset, DirA}, j \in {Unset, DirJ, DirC}}

InitWith(configs, maps) ==
    /\ action_detail \in configs
    /\ data_map \in maps
    /\ dirs = {}
    /\ files = <<>>
    /\ pc = "idle"
    /\ message = EmptyDict
    /\ todo = EmptyDict
    /\ m = EmptyDict
    /\ mfailed = EmptyDict
    /\ mgood = EmptyDict
    /\ paths = NoPaths
    /\ result = NoResult
    /\ snap = <<>>
    /\ prev = NoResult
    /\ registry = EmptyRegistry
    /\ pipe = NoPass

\* the cache side: write_cache, read_cache, clean_cache
Init == InitWith(CacheConfigs, DataMaps)

Next ==
    \/ \E arg \in CollectedBatches, ok \in MkdirOutcomes(KEY_CACHE, <<>>) : CallWriteCache(arg, ok)
    \/ \E o \in WriteOutcomes : WriteFilesStep(o)
    \/ \E ls \in Listings(DOMAIN files), ok \in MkdirOutcomes(KEY_CACHE, <<>>) : CallReadCache(ls, ok)
    \/ \E arg \in StagedBatches, ok \in MkdirOutcomes(KEY_CACHE, <<>>) : CallCleanCache(arg, ok)
    \/ CleanCacheStep
    \/ Crash

Spec == Init /\ [][Next]_vars

\* staging and promotion: write_cache, store
InitStore == InitWith(StoreConfigs, {<<IdK, IdAK>>})

NextStore ==
    \/ \E arg \in FirstBatches, ok \in MkdirOutcomes(KEY_CACHE, <<>>) : CallWriteCache(arg, ok)
    \/ \E o \in {"written", "open_fails"} : WriteFilesStep(o)
    \/ CleanCacheStep
    \/ \E arg \in SentBatches, okc \in MkdirOutcomes(KEY_CACHE, <<>>),
          oka \in MkdirOutcomes(KEY_ARCHIVE, Today), okj \in MkdirOutcomes(KEY_JUNK, <<>>) :
          CallStore(arg, (KEY_CACHE :> okc) @@ (KEY_ARCHIVE :> oka) @@ (KEY_JUNK :> okj))
    \/ Crash

SpecStore == InitStore /\ [][NextStore]_vars

\* the configs of a pass: the input and output sections are a module's or a
\* string, the storage section is there or not
InputSections == {Section("StdinCollector", "stdin_collector"), AString}
OutputSections == {Section("StdoutSender", "stdout_sender"), AString}
\* the storage section: the module and its cache directory
StorageSection ==
    [type |-> "dict",
     items |-> <<[k |-> "module_class_name", v |-> "DefaultStorageModule"],
                 [k |-> "module_path", v |-> "default_storage"],
                 [k |-> KEY_CACHE, v |-> DirC]>>]

StorageSections == {Absent, StorageSection}

Configs ==
    [input : InputSections, output : OutputSections, storage : StorageSections,
     _data : {DataSection(<<[k |-> IdK, v |-> EmptyDict], [k |-> IdAK, v |-> EmptyDict]>>)}]

\* BridgingHubBaseModule.KEY_ACTION_TYPES, the actions of the command line
ActionNames == {"bridge", "input", "output"}

\* the orchestrator: registrations and passes
InitPipe == InitWith({(KEY_CACHE :> Unset) @@ (KEY_ARCHIVE :> Unset) @@ (KEY_JUNK :> Unset)},
                     {<<IdK, IdAK>>})

NextPipe ==
    \/ \E n \in Segments, r \in Registrations : CallRegisterModule(n, r[1], r[2])
    \/ \E a \in ActionNames, c \in Configs, b \in FirstBatches : RunModulePipeOld(a, c, b)
    \/ \E a \in ActionNames, c \in Configs, e \in ConfigEntries : RunModulePipe(a, c, e)
    \/ \E a \in ActionNames, c \in Configs : RunModulePipeOldInputRaising(a, c)
    \/ \E c \in Configs, a \in {"input", "output", "storage"}, n \in Segments :
          CallLoadModule(c, a, n)

SpecPipe == InitPipe /\ [][NextPipe]_vars

----------------------------------------------------------------------------
(* Properties of store *)

Entries(d) == {d[i] : i \in 1..Len(d)}

CachedStorePhases == {"store_junk", "store_junk_clean", "store_archive", "store_archive_clean"}

\* the cache file of a record of the batch store was given
CacheFileOf(e) == NameFile(paths.cache, e.k, e.v)

\* where store puts a record of the batch: junk if it came in "failed", else archive
DestFileOf(e) == NameFile(IF IsFailed(e) THEN paths.junk ELSE paths.archive, e.k, e.v)

DestContentOf(e) ==
    JsonDump(SetField(e.v, BHStatusName, IF IsFailed(e) THEN "broken" ELSE "done"))

\* the records whose destination write this call of store has completed
WrittenKeys ==
    CASE pc = "store_junk" -> Keys(m)
      [] pc = "store_junk_clean" -> Keys(mfailed)
      [] pc = "store_archive" -> Keys(mfailed) \cup Keys(m)
      [] pc = "store_archive_clean" -> Keys(mfailed) \cup Keys(mgood)
      [] OTHER -> {}

C1_DeletesAfterWrite ==
    pc \in CachedStorePhases =>
        \A f \in DOMAIN files \ DOMAIN files' :
            \E e \in Entries(message) :
                /\ f = CacheFileOf(e)
                /\ DestFileOf(e) \in DOMAIN files
                /\ files[DestFileOf(e)] = DestContentOf(e)

C1_DeletedWereWritten ==
    pc \in CachedStorePhases =>
        \A e \in Entries(message) :
            (CacheFileOf(e) \in DOMAIN snap /\ CacheFileOf(e) \notin DOMAIN files)
                => e.k \in WrittenKeys

\* C1: every step of store that removes a file removes the cache file of a
\* record of the batch whose destination file (junk or archive) is on disk,
\* fully written, when the step begins; and at every point inside store,
\* also after a failed write, the records whose cache file is gone are
\* records whose destination write this call has completed.
C1_StoreOrdering == [][C1_DeletesAfterWrite /\ C1_DeletedWereWritten']_vars

\* store has written a failed record to junk, removed its cache file and is
\* about to write the archive
C1_Witness ==
    /\ pc = "store_archive"
    /\ paths.junk # paths.cache
    /\ \E e \in Entries(message) :
          /\ IsFailed(e)
          /\ CacheFileOf(e) \in DOMAIN snap
          /\ CacheFileOf(e) \notin DOMAIN files
          /\ DestFileOf(e) \in DOMAIN files

C2_Kept ==
    pc \in CachedStorePhases =>
        \A f \in FilesIn(snap, paths.cache) :
            \/ f \in DOMAIN files'
            \/ \E d \in {paths.archive, paths.junk} :
                  [dir |-> d, name |-> f.name] \in DOMAIN files'

\* C2: at every point inside store and when it ends (returned, failed or
\* died), every file that was in the cache directory when store was called
\* is still there or has a file of the same name in the archive or junk
\* directory store resolved.
C2_NeverLost == [][C2_Kept]_vars

----------------------------------------------------------------------------
(* Properties of the cache *)

CacheDir == action_detail[KEY_CACHE]

CacheFiles == FilesIn(files, CacheDir)

\* the files of fs in the cache directory that are staged for record-id k
StagedIn(fs, k) ==
    {f \in FilesIn(fs, CacheDir) :
        \E t \in Timestamps : f.name = <<t, "_">> \o k \o <<".json">>}

StagedFor(k) == StagedIn(files, k)

Expected == {data_map[i] : i \in 1..Len(data_map)}

\* read_cache has just run on a cache directory that is there and whose
\* files are all complete JSON
ReadCacheRan ==
    /\ pc = "idle"
    /\ result.op = "read_cache"
    /\ IsAbsolute(CacheDir)
    /\ CacheDir \in dirs
    /\ \A f \in CacheFiles : files[f].complete

\* C4: read_cache returns without an error, with exactly the expected ids
\* that have a staged file.
C4_MissingIdIsAbsent ==
    ReadCacheRan =>
        /\ result.exc = ""
        /\ Keys(result.value) = {k \in Expected : StagedFor(k) # {}}

\* C5: a write_cache that meets a write failure still returns (it raises
\* nothing), and every record it returns has its staged file in the cache.
C5_Returns ==
    (pc = "write_cache" /\ pc' = "idle" /\ result'.exc # "crash") =>
        /\ result'.exc = ""
        /\ \A e \in Entries(result'.value) :
              NameFile(paths.cache, e.k, e.v) \in DOMAIN files'

C5_PartialWriteReturns == [][C5_Returns]_vars

\* C6: the cache directory never holds two staged files of one record-id.
C6_OneFilePerId == \A k \in Ids : Cardinality(StagedFor(k)) <= 1

\* C6 as amended: every staged file is named after the timestamp of the
\* record it holds, so the staged files of one record-id hold records with
\* pairwise different timestamps (one file per timestamp and record-id).
C6_OneFilePerIdAndTimestamp ==
    /\ \A f \in CacheFiles :
          files[f].complete => Head(f.name) = JsonLoad(files[f])[TimestampName]
    /\ \A k \in Ids : \A f, g \in StagedFor(k) :
          (files[f].complete /\ files[g].complete /\ f # g)
              => JsonLoad(files[f])[TimestampName] # JsonLoad(files[g])[TimestampName]

\* two files are staged for one record-id
C6_Witness ==
    \E k \in Ids : \E f, g \in StagedFor(k) :
        f # g /\ files[f].complete /\ files[g].complete

\* the age of a timestamp
TsNum(t) == IF t = "1" THEN 1 ELSE 2

Oldest(S) == CHOOSE f \in S : \A g \in S : TsNum(Head(f.name)) <= TsNum(Head(g.name))

\* C7: for an expected id with several staged files read_cache returns the
\* record of the one with the smallest timestamp.
C7_ReturnsOldest ==
    (ReadCacheRan /\ result.exc = "") =>
        \A k \in Keys(result.value) :
            Cardinality(StagedFor(k)) >= 2
                => Lookup(result.value, k) = JsonLoad(files[Oldest(StagedFor(k))])

\* C8: read_cache after a write_cache into an empty cache returns every
\* written record of an expected id, under its id, as it was written.
C8_RoundTrip ==
    (/\ pc = "idle"
     /\ result.op = "read_cache"
     /\ prev.op = "write_cache"
     /\ prev.value # EmptyDict
     /\ FilesIn(prev.snap, CacheDir) = {})
        => /\ result.exc = ""
           /\ \A k \in Keys(prev.value) \cap Expected :
                 /\ k \in Keys(result.value)
                 /\ Lookup(result.value, k) = Lookup(prev.value, k)

\* the cache files named after the records of dict d
NamesOf(d) == {NameFile(CacheDir, e.k, e.v) : e \in Entries(d)}

Without(fs, N) == [f \in DOMAIN fs \ N |-> fs[f]]

\* clean_cache has finished on what the write_cache before it returned
CleanedAfterWrite ==
    /\ pc = "idle"
    /\ result.op = "clean_cache"
    /\ prev.op = "write_cache"
    /\ result.exc # "crash"

\* write_cache has raised on a write failure, which ends clean_cache(write_cache(b))
WriteCacheRaised ==
    /\ pc = "idle"
    /\ result.op = "write_cache"
    /\ result.exc = "StorageModuleException"
    /\ result.arg # EmptyDict

\* C9: when clean_cache(write_cache(b)) is over, the files write_cache wrote
\* are gone and every other file of the disk is as it was before.
C9_CleanAfterWrite ==
    /\ CleanedAfterWrite
          => /\ result.exc = ""
             /\ files = Without(prev.snap, NamesOf(prev.value))
    /\ WriteCacheRaised
          => \A f \in DOMAIN files :
                files[f].complete => (f \in DOMAIN result.snap /\ result.snap[f] = files[f])

SecondClean ==
    /\ pc = "idle"
    /\ result.op = "clean_cache"
    /\ prev.op = "clean_cache"
    /\ prev.value # EmptyDict
    /\ result.exc # "crash"

\* C10: a second clean_cache of the same ids completes without an error and
\* changes no file.
C10_SecondCleanIsNoOp ==
    SecondClean => (result.exc = "" /\ files = result.snap)

\* C10 as amended: a second clean_cache of the same ids fails with a
\* StorageModuleException (the first file is missing) and changes no file.
C10_SecondCleanFails ==
    SecondClean => (result.exc = "StorageModuleException" /\ files = result.snap)

\* the second clean_cache has run
C10_Witness ==
    /\ SecondClean
    /\ Len(result.arg) = 2
    /\ result.exc = "StorageModuleException"

----------------------------------------------------------------------------
(* Properties of the orchestrator *)

\* a bridge pass with an input and an output section, no storage, and an
\* input module that has collected exactly the configured data points
PlainBridgePass ==
    /\ pipe.op = "run_module_pipe_old"
    /\ pipe.action_name = "bridge"
    /\ pipe.config.input = Section("StdinCollector", "stdin_collector")
    /\ pipe.config.output = Section("StdoutSender", "stdout_sender")
    /\ pipe.config.storage = Absent
    /\ Keys(pipe.batch) = Keys(Lookup(pipe.config["_data"].items, "value_register_map"))

\* C3: a bridge pass with one input stage that produces a batch b of exactly
\* the configured ids, one output stage and no storage invokes the output
\* stage exactly once, with b, and returns success.
C3_BridgePass ==
    PlainBridgePass =>
        /\ pipe.exc = ""
        /\ SelectSeq(pipe.calls, LAMBDA c : c.stage = "output")
              = <<[stage |-> "output", arg |-> pipe.batch]>>

----------------------------------------------------------------------------
(* Properties of read_cache: the expected ids *)

\* the complete cache files staged for an expected id
ExpectedFiles == UNION {{f \in StagedFor(k) : files[f].complete} : k \in Expected}

\* C11: read_cache returns expected ids only, what it returns under an id is
\* the record of a file staged for an expected id (never the record of a
\* file staged for an id outside the registry), and it fails only when an
\* expected id has no staged file.
C11_OnlyExpectedIds ==
    ReadCacheRan =>
        /\ Keys(result.value) \subseteq Expected
        /\ \A k \in Keys(result.value) :
              \E f \in ExpectedFiles : JsonLoad(files[f]) = Lookup(result.value, k)
        /\ result.exc # "" => \E k \in Expected : StagedFor(k) = {}

----------------------------------------------------------------------------
(* Properties of store: where the records go *)

StorePhases == (WritePhases \cup CleanPhases) \ {"write_cache", "clean_cache"}

StoreWritePhases == WritePhases \ {"write_cache"}

BothConfigured == action_detail[KEY_ARCHIVE] # Unset /\ action_detail[KEY_JUNK] # Unset

\* where store has to put entry e of its batch when archive and junk are
\* both configured, and what it has to put there
PartitionFile(e) ==
    NameFile(IF IsFailed(e) THEN action_detail[KEY_JUNK]
                            ELSE action_detail[KEY_ARCHIVE] \o Today, e.k, e.v)

PartitionContent(e) ==
    JsonDump(SetField(e.v, BHStatusName, IF IsFailed(e) THEN "broken" ELSE "done"))

\* a step of store that writes a file writes one record of the batch, to
\* the destination of its status
C12_WriteGoesRight ==
    (pc \in StoreWritePhases /\ files' # files /\ BothConfigured) =>
        \E e \in Entries(message) :
            files' = WriteFile(files, PartitionFile(e), PartitionContent(e))

\* when store returns, every record of the batch has its file in its
\* destination (unless the destination is the cache directory itself, where
\* clean_cache has removed the file again)
C12_AllWritten ==
    (pc \in StorePhases /\ pc' = "idle" /\ result'.exc = "" /\ BothConfigured) =>
        \A e \in Entries(message) :
            PartitionFile(e).dir # action_detail[KEY_CACHE] =>
                /\ PartitionFile(e) \in DOMAIN files'
                /\ files'[PartitionFile(e)] = PartitionContent(e)

OneConfigured == (action_detail[KEY_ARCHIVE] # Unset) # (action_detail[KEY_JUNK] # Unset)

\* the directory store uses when only one of archive and junk is configured:
\* the archive directory of the day, or the junk directory
SingleDir ==
    IF action_detail[KEY_ARCHIVE] # Unset
    THEN action_detail[KEY_ARCHIVE] \o Today
    ELSE action_detail[KEY_JUNK]

SingleFile(e) == NameFile(SingleDir, e.k, e.v)

\* a step of store that writes a file writes one record of the batch into
\* the single directory, stamped by its status
C13_WriteGoesThere ==
    (pc \in StoreWritePhases /\ files' # files /\ OneConfigured) =>
        \E e \in Entries(message) :
            files' = WriteFile(files, SingleFile(e), PartitionContent(e))

\* when store returns, every record of the batch has its file there (unless
\* that directory is the cache directory itself, where clean_cache has
\* removed the file again)
C13_AllThere ==
    (pc \in StorePhases /\ pc' = "idle" /\ result'.exc = "" /\ OneConfigured) =>
        \A e \in Entries(message) :
            SingleDir # action_detail[KEY_CACHE] =>
                /\ SingleFile(e) \in DOMAIN files'
                /\ files'[SingleFile(e)] = PartitionContent(e)

StoreWriteEnds == pc \in StoreWritePhases /\ pc' = "idle" /\ result'.exc # "crash"

\* the records of the batch that the ending call has not visited
NotVisited == {e \in Entries(message) : e.k \in Keys(Tail(todo))}

C15_Tolerated ==
    StoreWriteEnds =>
        /\ result'.exc = ""
        /\ NotVisited = {}

\* C15: once the directories are prepared, a write failure for one record
\* does not end store: the call goes on to the other records of the batch
\* and returns.
C15_WriteFailureTolerated == [][C15_Tolerated]_vars

----------------------------------------------------------------------------
(* Directory preparation *)

RelA == <<"a">>
RelJ == <<"j">>

\* every setting unset, absolute or relative
DirConfigs ==
    {(KEY_CACHE :> c) @@ (KEY_ARCHIVE :> a) @@ (KEY_JUNK :> j) :
        c \in {Unset, DirC, RelC}, a \in {Unset, DirA, RelA}, j \in {Unset, DirJ, RelJ}}

\* one record, as collected, as staged and as sent
OneCollected == {b \in FirstBatches : Len(b) <= 1 /\ Keys(b) \subseteq {IdK}}
OneStaged == {b \in StagedBatches : b # EmptyDict /\ b \in Batches({"1"}, {"cached"}) /\ Keys(b) = {IdK}}
OneSent == {b \in SentBatches : Len(b) <= 1 /\ Keys(b) \subseteq {IdK}}

InitDirs == InitWith(DirConfigs, {<<IdK>>})

\* the four storage operations on one record, with mkdir faults
NextDirs ==
    \/ \E arg \in OneCollected, ok \in MkdirOutcomes(KEY_CACHE, <<>>) : CallWriteCache(arg, ok)
    \/ WriteFilesStep("written")
    \/ \E ls \in Listings(DOMAIN files), ok \in MkdirOutcomes(KEY_CACHE, <<>>) : CallReadCache(ls, ok)
    \/ \E arg \in OneStaged, ok \in MkdirOutcomes(KEY_CACHE, <<>>) : CallCleanCache(arg, ok)
    \/ CleanCacheStep
    \/ \E arg \in OneSent, okc \in MkdirOutcomes(KEY_CACHE, <<>>),
          oka \in MkdirOutcomes(KEY_ARCHIVE, Today), okj \in MkdirOutcomes(KEY_JUNK, <<>>) :
          CallStore(arg, (KEY_CACHE :> okc) @@ (KEY_ARCHIVE :> oka) @@ (KEY_JUNK :> okj))

SpecDirs == InitDirs /\ [][NextDirs]_vars

NeitherConfigured == action_detail[KEY_ARCHIVE] = Unset /\ action_detail[KEY_JUNK] = Unset

\* a step that is a whole call of store with neither archive nor junk set
StoreWithNeither ==
    /\ pc = "idle"
    /\ pc' = "idle"
    /\ result'.op = "store"
    /\ NeitherConfigured

\* the files outside the cache directory
Outside(fs) == [f \in {g \in DOMAIN fs : g.dir # CacheDir} |-> fs[f]]

C14_Step ==
    StoreWithNeither =>
        /\ result'.exc = ""
        /\ result'.value = EmptyDict
        /\ Outside(files') = Outside(files)

\* C14: with neither archive nor junk configured, store returns an empty
\* batch, raises nothing and touches no file outside the cache directory.
C14_NoOp == [][C14_Step]_vars

\* the cache setting is unset, or an absolute path whose directory is there
CacheUsable == CacheDir = Unset \/ (IsAbsolute(CacheDir) /\ CacheDir \in dirs)

C14_StepAmended ==
    StoreWithNeither =>
        /\ files' = files
        /\ IF CacheUsable'
           THEN /\ result'.exc = ""
                /\ result'.value = EmptyDict
                /\ dirs' \subseteq dirs \cup Parents(CacheDir)
           ELSE /\ result'.exc = "StorageModuleException"
                /\ dirs' = dirs

\* C14 as amended: with neither archive nor junk configured, store changes
\* no file; it returns an empty batch (having created the cache directory if
\* it was missing) when the cache setting is unset or an absolute path that
\* exists or can be created, and fails with a StorageModuleException, having
\* created nothing, when the cache path is relative or cannot be created.
C14_NoOpUnlessCacheUnusable == [][C14_StepAmended]_vars

\* store has failed on a relative cache path, with neither archive nor junk set
C14_Witness ==
    /\ pc = "idle"
    /\ result.op = "store"
    /\ result.arg # EmptyDict
    /\ NeitherConfigured
    /\ CacheDir = RelC
    /\ result.exc = "StorageModuleException"

IsRelative(p) == p # Unset /\ ~IsAbsolute(p)

\* the settings an operation prepares with _test_dir
SettingsOf(op) == IF op = "store" THEN {KEY_CACHE, KEY_ARCHIVE, KEY_JUNK} ELSE {KEY_CACHE}

\* the directory _test_dir prepares for a setting
PreparedDir(dir_type) ==
    IF dir_type = KEY_ARCHIVE THEN action_detail[dir_type] \o Today ELSE action_detail[dir_type]

\* this step begins a storage call; the operation it calls
CallBegins == pc = "idle" /\ (pc' # "idle" \/ result' # result)

CalledOp == IF pc' # "idle" THEN OpOf(pc') ELSE result'.op

C16_Step ==
    CallBegins =>
        /\ (\E t \in SettingsOf(CalledOp) : IsRelative(action_detail[t]))
              => /\ pc' = "idle"
                 /\ result'.exc # ""
                 /\ dirs' = dirs
                 /\ files' = files
        /\ (pc' # "idle" \/ result'.exc = "")
              => \A t \in SettingsOf(CalledOp) :
                    IsAbsolute(action_detail[t]) => Parents(PreparedDir(t)) \subseteq dirs'

\* C16: an operation that uses a setting with a relative path fails without
\* creating a directory or a file; an operation that gets past the
\* preparation has created every absolute directory it uses, with its
\* intermediate directories.
C16_DirectoryPreparation == [][C16_Step]_vars

\* the position of a bH status on the way in -> cached -> out or failed ->
\* done or broken
StatusRank(s) ==
    CASE s = "in" -> 1
      [] s = "cached" -> 2
      [] s \in {"out", "failed"} -> 3
      [] s \in {"done", "broken"} -> 4

\* what a stage call of the pass hands back: the input stage the collected
\* batch, the output stage the batch StdoutSender.send stamped
Returned(c) == IF c.stage = "input" THEN pipe.batch ELSE Send(c.arg)

\* the statuses the record k carries after each stage call of the pass
StatusHistory(k) ==
    LET with == SelectSeq(pipe.calls, LAMBDA c : k \in Keys(Returned(c)))
    IN [i \in 1..Len(with) |-> Lookup(Returned(with[i]), k)[BHStatusName]]

\* a bridge pass over loadable input and output sections whose input stage
\* delivers the configured ids
BridgePassWithRecords ==
    /\ pipe.op = "run_module_pipe_old"
    /\ pipe.action_name = "bridge"
    /\ pipe.config.input = Section("StdinCollector", "stdin_collector")
    /\ pipe.config.output = Section("StdoutSender", "stdout_sender")
    /\ Keys(pipe.batch) = Keys(Lookup(pipe.config["_data"].items, "value_register_map"))

FlowList == <<"input", "output">>

\* a bridge pass, by either entry point, over a loadable input section and a
\* loadable output section, without storage, whose input stage delivers the
\* configured ids
LinearBridgePass ==
    /\ pipe.op \in {"run_module_pipe", "run_module_pipe_old"}
    /\ pipe.action_name = "bridge"
    /\ pipe.config.input = Section("StdinCollector", "stdin_collector")
    /\ pipe.config.output = Section("StdoutSender", "stdout_sender")
    /\ pipe.config.storage = Absent
    /\ pipe.op = "run_module_pipe_old"
          => Keys(pipe.batch) = Keys(Lookup(pipe.config["_data"].items, "value_register_map"))

\* C18: a pass invokes the callables of the configured segments once each,
\* in configuration order, the first with an empty batch and each of the
\* others with the batch the one before it returned.
C18_FoldsFlowList ==
    LinearBridgePass =>
        /\ Len(pipe.calls) = Len(FlowList)
        /\ \A i \in 1..Len(pipe.calls) :
              /\ pipe.calls[i].stage = FlowList[i]
              /\ pipe.calls[i].arg = IF i = 1 THEN EmptyDict ELSE Returned(pipe.calls[i - 1])

----------------------------------------------------------------------------
(* Dispatch and subscription (bridging_hub_module.py) *)

MaxSubscribers == 2

\* the value of module_subscription in a section: a list of segment names,
\* or a string
AList(s) == [type |-> "list", items |-> s]

Subscriptions ==
    {AList(<<>>), AList(<<"other">>), AList(<<"default", "other">>), AString}

\* the truth value of a value of the config
TruthyValue(v) == v.type = "str" \/ v.items # <<>>

\* a section that names module_subscription
Subscribing(section, sub) ==
    [section EXCEPT !.items = Append(@, [k |-> "module_subscription", v |-> sub])]

\* the configs the stages are configured with: an input and an output section,
\* both without module_subscription or both with the same one
PlainConfig ==
    [input |-> Section("StdinCollector", "stdin_collector"),
     output |-> Section("StdoutSender", "stdout_sender"),
     storage |-> Absent,
     _data |-> DataSection(<<[k |-> IdK, v |-> EmptyDict]>>)]

HubConfigs ==
    {PlainConfig} \cup
    {[PlainConfig EXCEPT !.input = Subscribing(@, sub), !.output = Subscribing(@, sub)] :
        sub \in Subscriptions}

\* the module classes that get registered
HubRegistrations ==
    {<<"StdinCollector", "stdin_collector">>, <<"StdoutSender", "stdout_sender">>}

\* the contexts a stage is dispatched in
DispatchContexts == {"bridge", "input", "output", "cleanup"}

\* the bound method obj.<method>
Bound(obj, method) == [seg |-> obj.the_name, method |-> method]

\* subscribe putting the call in front of the list
SubscribeInFront(reg, n, call) ==
    [reg EXCEPT ![n].module_object.subscription = <<call>> \o @]

\* subscribe: the call is appended to the list of the module of segment n
Subscribe(reg, n, call) ==
    [reg EXCEPT ![n].module_object.subscription = Append(@, call)]

\* the parameters of BridgingHubModuleRegistry.load_module after cls
LoadModuleParameters == <<"segment_name", "module_class_name">>

\* a call of BridgingHubModuleRegistry.load_module with positional arguments
CallRegistryLoadModule(reg, args) ==
    IF Len(args) # Len(LoadModuleParameters)
    THEN Raised("TypeError", reg)
    ELSE RegistryLoadModule(reg, args[1], args[2])

\* listen, the loop over the subscriptions s
RECURSIVE SubscribeAll(_, _, _)
SubscribeAll(reg, s, observer) ==
    IF s = <<>>
    THEN [exc |-> "", value |-> NoCallable, reg |-> reg]
    ELSE LET l == CallRegistryLoadModule(reg, <<Head(s)>>) IN
         IF l.exc # ""
         THEN [exc |-> l.exc, value |-> NoCallable, reg |-> l.reg]
         ELSE SubscribeAll(Subscribe(l.reg, l.obj.the_name, observer), Tail(s), observer)

\* the module_subscription of a module: what listen reads in _action_detail
HasSubscription(obj) ==
    IF "module_subscription" \in Keys(obj.action_detail.items)
    THEN TruthyValue(Lookup(obj.action_detail.items, "module_subscription"))
    ELSE FALSE

\* BridgingHubBaseModule.listen(observer)
Listen(reg, obj, observer) ==
    IF HasSubscription(obj)
    THEN LET s == Lookup(obj.action_detail.items, "module_subscription") IN
         IF s.type # "list"
         THEN [exc |-> "BrokenConfigException", value |-> NoCallable, reg |-> reg]
         ELSE SubscribeAll(reg, s.items, observer)
    ELSE [exc |-> "", value |-> observer, reg |-> reg]

\* every stage active in the contexts bridge, input and output
ActiveInEveryPass(action_type) == {"bridge", "input", "output"}

\* the contexts in which a stage of an action type is active
ActiveContexts(action_type) ==
    IF action_type = "input" THEN {"bridge", "input"} ELSE {"bridge", "output"}

\* str.split(sep) on a string given as its tokens: the pieces between the
\* separators
RECURSIVE Split(_, _)
Split(s, sep) ==
    IF \A i \in 1..Len(s) : s[i] # sep
    THEN <<s>>
    ELSE LET i == CHOOSE j \in 1..Len(s) : s[j] = sep /\ \A h \in 1..(j - 1) : s[h] # sep
         IN <<SubSeq(s, 1, i - 1)>> \o Split(SubSeq(s, i + 1, Len(s)), sep)

\* StorageBaseModule.KEY_SUBTYPE_BUFFER
KEY_SUBTYPE_BUFFER == <<"buffer">>

\* len(mt) >= 1 and mt[1] == KEY_SUBTYPE_BUFFER, for a list mt that has its
\* second element
IsBuffer(mt) == Len(mt) >= 1 /\ mt[2] = KEY_SUBTYPE_BUFFER

\* the storage dispatch that answers the context cleanup with an operation
StorageOperationWithCleanup(action_name, buffer) ==
    IF buffer
    THEN CASE action_name \in {"bridge", "input"} -> "write_buffer"
           [] action_name = "output" -> "read_buffer"
           [] OTHER -> "clean_buffer"
    ELSE CASE action_name \in {"bridge", "output"} -> "store"
           [] action_name = "cleanup" -> "clean_buffer"
           [] OTHER -> ""

\* the operation StorageBaseModule.dispatch hands to listen, "" for none
StorageOperation(action_name, buffer) ==
    CASE action_name = "bridge" -> IF buffer THEN "write_buffer" ELSE "store"
      [] action_name = "input" -> IF buffer THEN "write_buffer" ELSE ""
      [] action_name = "output" -> IF buffer THEN "read_buffer" ELSE "store"
      [] OTHER -> ""

\* StorageBaseModule.dispatch
StorageDispatch(reg, obj, action_name) ==
    IF "module_type" \notin Keys(obj.action_detail.items)
    THEN [exc |-> "KeyError", value |-> NoCallable, reg |-> reg]
    ELSE LET mt == Split(Lookup(obj.action_detail.items, "module_type"), ":") IN
         IF Len(mt) < 2
         THEN [exc |-> "IndexError", value |-> NoCallable, reg |-> reg]
         ELSE LET op == StorageOperation(action_name, IsBuffer(mt)) IN
              IF op = ""
              THEN [exc |-> "", value |-> NoCallable, reg |-> reg]
              ELSE Listen(reg, obj, Bound(obj, op))

\* the contexts in which FilterBaseModule.dispatch hands filter to listen
FilterContexts == {"bridge", "input", "output", "cleanup"}

\* FilterBaseModule.dispatch
FilterDispatch(reg, obj, action_name) ==
    IF action_name \in FilterContexts
    THEN Listen(reg, obj, Bound(obj, "filter"))
    ELSE [exc |-> "", value |-> NoCallable, reg |-> reg]

\* dispatch, by the base class of the module
Dispatch(reg, obj, action_name) ==
    IF obj.action_type = "filter"
    THEN FilterDispatch(reg, obj, action_name)
    ELSE IF obj.action_type = "storage"
    THEN StorageDispatch(reg, obj, action_name)
    ELSE IF action_name \in ActiveContexts(obj.action_type)
    THEN Listen(reg, obj, Bound(obj, obj.action_type))
    ELSE [exc |-> "", value |-> NoCallable, reg |-> reg]

\* a subscriber called with data: the input of a collector reads the
\* value_register_map of its data section and leaves data alone, the output
\* of a sender stamps the records of data; the input of an output module and
\* the output of an input module raise
Invoke(reg, call, data) ==
    LET obj == reg[call.seg].module_object IN
    IF call.method # obj.action_type
    THEN [exc |-> "BrokenConfigException", data |-> data]
    ELSE IF obj.action_type = "input"
    THEN [exc |-> IF "value_register_map" \in Keys(obj.data.items) THEN "" ELSE "KeyError",
          data |-> data]
    ELSE [exc |-> "", data |-> Send(data)]

\* on_data, the loop over the subscribers; calls logs each call with the
\* batch as the subscriber gets it
RECURSIVE OnData(_, _, _, _)
OnData(reg, subs, data, calls) ==
    IF subs = <<>>
    THEN [exc |-> "", data |-> data, calls |-> calls]
    ELSE LET c == Head(subs)
             r == Invoke(reg, c, data)
             log == Append(calls, [stage |-> c.method, seg |-> c.seg, arg |-> data])
         IN IF r.exc # ""
            THEN [exc |-> r.exc, data |-> r.data, calls |-> log]
            ELSE OnData(reg, Tail(subs), r.data, log)

\* obj.configure(config) on the module of segment n
CallConfigure(n, config) ==
    /\ pc = "idle"
    /\ registry[n].module_object # NoModule
    /\ LET c == Configure(registry[n].module_object, config) IN
        /\ registry' = [registry EXCEPT ![n].module_object = c.obj]
        /\ pipe' = [NoPass EXCEPT !.op = "configure", !.config = config,
                                  !.exc = c.exc, !.obj = c.obj]
    /\ UNCHANGED storageVars

\* obj.dispatch(action_name) on the module of segment n
CallDispatch(n, action_name) ==
    /\ pc = "idle"
    /\ registry[n].module_object # NoModule
    /\ LET d == Dispatch(registry, registry[n].module_object, action_name) IN
        /\ registry' = d.reg
        /\ pipe' = [NoPass EXCEPT !.op = "dispatch", !.action_name = action_name,
                                  !.exc = d.exc, !.value = d.value,
                                  !.obj = registry[n].module_object]
    /\ UNCHANGED storageVars

\* the number of subscriptions made so far
Subscribed(reg) ==
    Cardinality({e \in Segments \X (1..MaxSubscribers) :
                    e[2] <= Len(reg[e[1]].module_object.subscription)})

\* obj.subscribe(call) on the module of segment n, call being the driving
\* callable of the module of segment s
CallSubscribe(n, s) ==
    /\ pc = "idle"
    /\ registry[n].module_object # NoModule
    /\ registry[s].module_object # NoModule
    /\ Subscribed(registry) < MaxSubscribers
    /\ LET call == Bound(registry[s].module_object, registry[s].module_object.action_type) IN
        /\ registry' = Subscribe(registry, n, call)
        /\ pipe' = [NoPass EXCEPT !.op = "subscribe", !.value = call,
                                  !.obj = registry[n].module_object]
    /\ UNCHANGED storageVars

\* obj.on_data(data) on the module of segment n
CallOnData(n, data) ==
    /\ pc = "idle"
    /\ registry[n].module_object # NoModule
    /\ LET r == OnData(registry, registry[n].module_object.subscription, data, <<>>) IN
        /\ registry' = registry
        /\ pipe' = [NoPass EXCEPT !.op = "on_data", !.batch = data, !.exc = r.exc,
                                  !.calls = r.calls, !.obj = registry[n].module_object]
    /\ UNCHANGED storageVars

\* registered modules that are configured, dispatched, subscribed to and
\* notified
InitHub == InitPipe

NextHub ==
    \/ \E n \in Segments, r \in HubRegistrations : CallRegisterModule(n, r[1], r[2])
    \/ \E n \in Segments, c \in HubConfigs : CallConfigure(n, c)
    \/ \E n \in Segments, a \in DispatchContexts : CallDispatch(n, a)
    \/ \E n, s \in Segments : CallSubscribe(n, s)
    \/ \E n \in Segments, b \in OneCollected : CallOnData(n, b)

SpecHub == InitHub /\ [][NextHub]_vars

----------------------------------------------------------------------------
(* Properties of dispatch and subscription *)

\* the segments a module subscribes to, when its module_subscription is a list
Named(obj) ==
    IF "module_subscription" \in Keys(obj.action_detail.items)
    THEN LET s == Lookup(obj.action_detail.items, "module_subscription") IN
         IF s.type = "list" THEN s.items ELSE <<>>
    ELSE <<>>

\* module_subscription is not there or is a list
ListOrNothing(obj) ==
    IF "module_subscription" \in Keys(obj.action_detail.items)
    THEN Lookup(obj.action_detail.items, "module_subscription").type = "list"
    ELSE TRUE

Subscribers(reg, n) == reg[n].module_object.subscription

\* this step is the dispatch of a stage that is active in its context, whose
\* module_subscription, if any, is a list of segments that have a module
ActiveDispatch ==
    /\ pipe'.op = "dispatch"
    /\ pipe'.action_name \in ActiveContexts(pipe'.obj.action_type)
    /\ ListOrNothing(pipe'.obj)
    /\ \A i \in 1..Len(Named(pipe'.obj)) :
          registry[Named(pipe'.obj)[i]].module_object # NoModule

C19_Step ==
    ActiveDispatch =>
        LET obj == pipe'.obj
            call == Bound(obj, obj.action_type)
            named == {Named(obj)[i] : i \in 1..Len(Named(obj))}
        IN /\ pipe'.exc = ""
           /\ IF named # {}
              THEN /\ pipe'.value = NoCallable
                   /\ \A n \in Segments :
                         Subscribers(registry', n) =
                            IF n \in named
                            THEN Append(Subscribers(registry, n), call)
                            ELSE Subscribers(registry, n)
              ELSE /\ pipe'.value = call
                   /\ \A n \in Segments : Subscribers(registry', n) = Subscribers(registry, n)

\* C19: the dispatch of an active stage with a non-empty module_subscription
\* list returns none and appends the stage's callable once to the subscriber
\* list of each named segment; without a subscription, or with an empty
\* list, it returns the callable and changes no subscriber list.
C19_SubscribeOrReturn == [][C19_Step]_vars

\* a subscribe step appends the call to the list of one segment and leaves
\* the other lists alone
SubscribeAppends ==
    (pipe'.op = "subscribe" /\ registry' # registry) =>
        \E n \in Segments :
            /\ Subscribers(registry', n) = Append(Subscribers(registry, n), pipe'.value)
            /\ \A o \in Segments \ {n} : Subscribers(registry', o) = Subscribers(registry, o)

\* the first calls of an on_data went to the first subscribers, in the
\* order of the list, each with the batch object as the subscribers before
\* it left it
CalledInOrder ==
    /\ Len(pipe.calls) <= Len(pipe.obj.subscription)
    /\ \A i \in 1..Len(pipe.calls) :
          /\ Bound([the_name |-> pipe.calls[i].seg], pipe.calls[i].stage)
                = pipe.obj.subscription[i]
          /\ pipe.calls[i].arg =
                IF i = 1
                THEN pipe.batch
                ELSE Invoke(registry, pipe.obj.subscription[i - 1], pipe.calls[i - 1].arg).data

\* what the i-th subscriber called by the on_data raised
RaisedBy(i) == Invoke(registry, pipe.obj.subscription[i], pipe.calls[i].arg).exc

C20_AllNotified ==
    pipe.op = "on_data" =>
        /\ CalledInOrder
        /\ Len(pipe.calls) = Len(pipe.obj.subscription)

C20_NotifiedUntilRaise ==
    pipe.op = "on_data" =>
        /\ CalledInOrder
        /\ \A i \in 1..(Len(pipe.calls) - 1) : RaisedBy(i) = ""
        /\ IF pipe.exc = ""
           THEN Len(pipe.calls) = Len(pipe.obj.subscription)
           ELSE Len(pipe.calls) >= 1 /\ RaisedBy(Len(pipe.calls)) = pipe.exc

NamedBy(reg, n) ==
    LET s == Named(reg[n].module_object) IN {s[i] : i \in 1..Len(s)}

\* the segments reached from the segments S along at most k subscriptions
RECURSIVE ReachedFrom(_, _, _)
ReachedFrom(reg, S, k) ==
    IF k = 0
    THEN S
    ELSE ReachedFrom(reg, S \cup UNION {NamedBy(reg, n) : n \in S}, k - 1)

\* the module of segment n subscribes to itself, directly or through others
SubscribesToItself(reg, n) ==
    n \in ReachedFrom(reg, NamedBy(reg, n), Cardinality(Segments))

\* this step is the dispatch of an active stage that is on a subscription
\* cycle of modules that are there
CycleDispatch ==
    /\ ActiveDispatch
    /\ SubscribesToItself([registry EXCEPT ![pipe'.obj.the_name].module_object = pipe'.obj],
                          pipe'.obj.the_name)

C21_Step ==
    CycleDispatch =>
        /\ pipe'.exc = "BrokenConfigException"
        /\ \A n \in Segments : Subscribers(registry', n) = Subscribers(registry, n)

\* C21: the dispatch of a stage that subscribes to itself, directly or
\* through other stages, ends with a configuration error and subscribes
\* nothing.
C21_CycleRejected == [][C21_Step]_vars

----------------------------------------------------------------------------
(* Properties of the registry *)

\* this step is a register_module for a segment that is registered with
\* another class name or another path
RegistersAnother ==
    /\ pipe'.op = "register_module"
    /\ pipe' # pipe
    /\ registry[pipe'.args[1]] # Unregistered
    /\ \/ registry[pipe'.args[1]].module_name # pipe'.args[2]
       \/ registry[pipe'.args[1]].module_path # pipe'.args[3]

C22_Step == RegistersAnother => pipe'.exc = "DuplicatedModuleException"

\* C22: register_module for a segment that is already registered with a
\* different class name or path fails with DuplicatedModuleException.
C22_DuplicateRejected == [][C22_Step]_vars

\* the segment a register_module was called for
Registered == pipe'.args[1]

\* a register_module for a segment that has its module returns that module,
\* as it is, and constructs nothing; one for a segment without a module that
\* succeeds returns the module it stored for the segment and leaves the
\* other segments alone
C23_RegisterStep ==
    pipe'.op = "register_module" =>
        IF registry[Registered].module_object # NoModule
        THEN /\ pipe'.exc = ""
             /\ pipe'.obj = registry[Registered].module_object
             /\ registry' = registry
        ELSE /\ pipe'.exc = "" => /\ pipe'.obj = registry'[Registered].module_object
                                  /\ pipe'.obj.the_name = Registered
             /\ \A o \in Segments \ {Registered} : registry'[o] = registry[o]

\* configure and subscribe change the module of their segment only
C23_OwnState ==
    pipe'.op \in {"configure", "subscribe"} =>
        \A o \in Segments \ {pipe'.obj.the_name} : registry'[o] = registry[o]

\* the modules of two segments are two modules
C23_Distinct ==
    \A n, o \in Segments :
        (n # o /\ registry[n].module_object # NoModule)
            => registry[n].module_object # registry[o].module_object

C24_OnlyNoSuchModule ==
    (pipe.op = "register_module" /\ pipe.exc # "") => pipe.exc = "NoSuchModuleException"

\* C25: a load_module of the orchestrator that fails for a section that is
\* a dict reaches its caller as ModuleLoaderException.
C25_OnlyModuleLoader ==
    (pipe.op = "load_module" /\ pipe.config[pipe.action_name].type = "dict" /\ pipe.exc # "")
        => pipe.exc = "ModuleLoaderException"

\* a bridge or input pass over a loadable input section whose input module
\* raises InputModuleException
PassWithInputError ==
    /\ pipe.op = "run_module_pipe_old"
    /\ pipe.args = <<"input raises">>
    /\ pipe.action_name \in {"bridge", "input"}
    /\ pipe.config.input = Section("StdinCollector", "stdin_collector")

StageDispatch == pipe'.op = "dispatch" /\ pipe'.obj.action_type \in {"input", "output"}

\* the contexts of the activation table for input and output stages
TableContexts == [input |-> {"bridge", "input"}, output |-> {"bridge", "output"}]

\* a stage without subscription gets its callable back in its contexts; in
\* the other contexts dispatch returns none and subscribes nothing
C27_Step ==
    StageDispatch =>
        LET obj == pipe'.obj IN
        IF pipe'.action_name \in TableContexts[obj.action_type]
        THEN ~HasSubscription(obj)
                => /\ pipe'.exc = ""
                   /\ pipe'.value = [seg |-> obj.the_name, method |-> obj.action_type]
        ELSE /\ pipe'.exc = ""
             /\ pipe'.value = NoCallable
             /\ registry' = registry

\* C27: dispatch on an input stage returns its input callable in the
\* contexts bridge and input and none in output and cleanup; dispatch on an
\* output stage returns its output callable in the contexts bridge and
\* output and none in input and cleanup.
C27_ActiveContexts == [][C27_Step]_vars

\* an input stage dispatched in the context output, next to an output
\* stage: none for the input stage
C27_Witness ==
    /\ pipe.op = "dispatch"
    /\ pipe.obj.action_type = "input"
    /\ pipe.action_name = "output"
    /\ pipe.value = NoCallable
    /\ pipe.exc = ""
    /\ \E n \in Segments : registry[n].module_object.action_type = "output"

----------------------------------------------------------------------------
(* Dispatch by base class *)

\* the stages: class, action type and module_type, as tokens. The storage
\* stage stands for a subclass of StorageBaseModule that can be constructed
\* (DefaultStorageModule leaves write_buffer, read_buffer and clean_buffer
\* abstract).
StageKinds ==
    {<<"StdinCollector", "input", <<"input">>>>,
     <<"StdoutSender", "output", <<"output">>>>,
     <<"DefaultFilter", "filter", <<"filter">>>>,
     <<"DefaultStorageModule", "storage", <<"storage">>>>,
     <<"DefaultStorageModule", "storage", <<"storage", ":", "buffer">>>>,
     <<"DefaultStorageModule", "storage", <<"storage", ":", "archive">>>>}

\* the section a stage of that kind is configured with
StageSection(kind) ==
    [type |-> "dict",
     items |-> <<[k |-> "module_class_name", v |-> kind[1]],
                 [k |-> "module_path", v |-> "module"],
                 [k |-> "module_type", v |-> kind[3]]>>]

\* the sections of a kind: without module_subscription and with each one
SectionsOf(kind) ==
    {StageSection(kind)} \cup {Subscribing(StageSection(kind), sub) : sub \in Subscriptions}

\* a stage of segment n after __init__ and configure
Stage(n, kind, section) ==
    [NoModule EXCEPT !.cls = kind[1], !.action_type = kind[2], !.the_name = n,
                     !.data = DataSection(<<[k |-> IdK, v |-> EmptyDict]>>),
                     !.action_detail = section]

\* the registry that holds one stage, for the segment default
StageRegistry(kind, section) ==
    [EmptyRegistry EXCEPT !["default"] =
        [module_path |-> "module", module_name |-> kind[1],
         module_object |-> Stage("default", kind, section)]]

StageRegistries ==
    UNION {{StageRegistry(kind, section) : section \in SectionsOf(kind)} : kind \in StageKinds}

\* one configured stage of any base class, dispatched in any context
InitStage ==
    /\ action_detail = (KEY_CACHE :> Unset) @@ (KEY_ARCHIVE :> Unset) @@ (KEY_JUNK :> Unset)
    /\ data_map = <<IdK>>
    /\ dirs = {}
    /\ files = <<>>
    /\ pc = "idle"
    /\ message = EmptyDict
    /\ todo = EmptyDict
    /\ m = EmptyDict
    /\ mfailed = EmptyDict
    /\ mgood = EmptyDict
    /\ paths = NoPaths
    /\ result = NoResult
    /\ snap = <<>>
    /\ prev = NoResult
    /\ registry \in StageRegistries
    /\ pipe = NoPass

\* the data sections a stage is configured with: none, an empty one, one
\* without custom names, and ones that name the timestamp and the value field
\* with a str, an empty str or a list
DataSections ==
    {Absent, [type |-> "dict", items |-> EmptyDict]} \cup
    {[type |-> "dict",
      items |-> <<[k |-> "value_register_map", v |-> <<[k |-> IdK, v |-> EmptyDict]>>]>> \o names] :
        names \in {<<>>,
                   <<[k |-> "timestamp_name", v |-> NameValue("str", "ts")]>>,
                   <<[k |-> "timestamp_name", v |-> NameValue("str", "")]>>,
                   <<[k |-> "timestamp_name", v |-> NameValue("list", "ts")]>>,
                   <<[k |-> "timestamp_name", v |-> NameValue("str", "ts")],
                     [k |-> "value_name", v |-> NameValue("list", "val")]>>}}

\* the sections of its own type a stage is configured with: none, an empty
\* one, and the ones of its kind
OwnSections(obj) ==
    {Absent, [type |-> "dict", items |-> EmptyDict]} \cup
    UNION {SectionsOf(kind) : kind \in {kd \in StageKinds :
              /\ kd[1] = obj.cls
              /\ kd[3] = Lookup(obj.action_detail.items, "module_type")}}

\* the sections of a config
ConfigSections == {"input", "output", "filter", "storage", "_data"}

\* the configs a stage is configured with
StageConfigs(obj) ==
    {[f \in ConfigSections |->
        IF f = "_data" THEN d ELSE IF f = obj.action_type THEN own ELSE Absent] :
        d \in DataSections, own \in OwnSections(obj)}

NextStage ==
    \/ \E a \in DispatchContexts : CallDispatch("default", a)
    \/ \E c \in StageConfigs(registry["default"].module_object) : CallConfigure("default", c)

SpecStage == InitStage /\ [][NextStage]_vars

----------------------------------------------------------------------------
(* Properties of dispatch by base class *)

\* the module_type of the stage a dispatch was called on
ModuleTypeOf(obj) == Lookup(obj.action_detail.items, "module_type")

\* this step is the dispatch of a storage stage of the subtype
StorageDispatched(subtype) ==
    /\ pipe'.op = "dispatch"
    /\ pipe'.obj.action_type = "storage"
    /\ ModuleTypeOf(pipe'.obj) = <<"storage", ":", subtype>>

\* the operation of the activation table for a buffer, "" for none
BufferTable ==
    [bridge |-> "write_buffer", input |-> "write_buffer", output |-> "read_buffer",
     cleanup |-> ""]

C28_Step ==
    StorageDispatched("buffer") =>
        LET obj == pipe'.obj
            op == BufferTable[pipe'.action_name]
        IN IF op = ""
           THEN /\ pipe'.exc = ""
                /\ pipe'.value = NoCallable
                /\ registry' = registry
           ELSE ~HasSubscription(obj)
                   => /\ pipe'.exc = ""
                      /\ pipe'.value = [seg |-> obj.the_name, method |-> op]

\* C28: dispatch on a storage stage of the buffer subtype returns its
\* write_buffer in the contexts input and bridge, its read_buffer in the
\* context output and none in the context cleanup.
C28_BufferDispatch == [][C28_Step]_vars

\* a buffer stage without subscription dispatched in the context output
C28_Witness ==
    /\ pipe.op = "dispatch"
    /\ pipe.obj.action_type = "storage"
    /\ ModuleTypeOf(pipe.obj) = <<"storage", ":", "buffer">>
    /\ ~HasSubscription(pipe.obj)
    /\ pipe.action_name = "output"
    /\ pipe.value = [seg |-> "default", method |-> "read_buffer"]

\* the operation of the activation table for an archive, "" for none
ArchiveTable ==
    [bridge |-> "store", input |-> "", output |-> "store", cleanup |-> "cleanup"]

C29_Step ==
    StorageDispatched("archive") =>
        LET obj == pipe'.obj
            op == ArchiveTable[pipe'.action_name]
        IN IF op = ""
           THEN /\ pipe'.exc = ""
                /\ pipe'.value = NoCallable
                /\ registry' = registry
           ELSE ~HasSubscription(obj)
                   => /\ pipe'.exc = ""
                      /\ pipe'.value.seg = obj.the_name
                      /\ IF op = "cleanup"
                         THEN pipe'.value.method \notin {"", "store", "write_buffer", "read_buffer"}
                         ELSE pipe'.value.method = op

\* C29: dispatch on a storage stage of the archive subtype returns none in
\* the context input, its store in the contexts output and bridge, and an
\* operation that cleans up in the context cleanup.
C29_ArchiveDispatch == [][C29_Step]_vars

C30_Step ==
    (pipe'.op = "dispatch" /\ pipe'.obj.action_type = "filter") =>
        IF pipe'.action_name = "cleanup"
        THEN /\ pipe'.exc = ""
             /\ pipe'.value = NoCallable
             /\ registry' = registry
        ELSE ~HasSubscription(pipe'.obj)
                => /\ pipe'.exc = ""
                   /\ pipe'.value = [seg |-> pipe'.obj.the_name, method |-> "filter"]

\* C30: dispatch on a filter stage returns its filter callable in the
\* contexts input, output and bridge, and returns none and subscribes
\* nothing in the context cleanup.
C30_FilterDispatch == [][C30_Step]_vars

----------------------------------------------------------------------------
(* Properties of configure *)

\* this step is a configure
ConfigureStep == pipe'.op = "configure"

\* the data section of the config is absent or empty
NoDataSection(config) ==
    config["_data"].type = "absent" \/ config["_data"].items = EmptyDict

\* the section of the stage's own type is absent or empty
NoOwnSection(config, obj) ==
    config[obj.action_type].type = "absent" \/ config[obj.action_type].items = EmptyDict

\* the data section gives a custom name a value that is not empty and no str
NameNotAStr(config) ==
    \E i \in 1..Len(config["_data"].items) :
        /\ config["_data"].items[i].k \in {CustomNameKeys[j] : j \in 1..Len(CustomNameKeys)}
        /\ config["_data"].items[i].v.text # ""
        /\ config["_data"].items[i].v.type # "str"

\* after a configure that succeeded the stage holds the two sections of the config
HoldsSections(config, obj) ==
    /\ obj.data = config["_data"]
    /\ obj.action_detail = config[obj.action_type]

C31_Step ==
    ConfigureStep =>
        LET config == pipe'.config
            obj == registry'["default"].module_object
        IN IF NoDataSection(config) \/ NoOwnSection(config, obj)
           THEN pipe'.exc = "BrokenConfigException"
           ELSE pipe'.exc = "" /\ HoldsSections(config, obj)

\* C31: configure fails with a configuration error if the data section or the
\* section of the stage's own type is absent or empty, and otherwise succeeds
\* with the stage holding exactly these two sections.
C31_FailsOnlyWithoutSection == [][C31_Step]_vars

C31_AmendedStep ==
    ConfigureStep =>
        LET config == pipe'.config
            obj == registry'["default"].module_object
        IN IF NoDataSection(config) \/ NoOwnSection(config, obj)
           THEN pipe'.exc = "BrokenConfigException"
           ELSE IF NameNotAStr(config)
           THEN pipe'.exc = "BrokenConfigException"
           ELSE pipe'.exc = "" /\ HoldsSections(config, obj)

\* C31 (amended): configure fails with a configuration error if the data
\* section or the section of the stage's own type is absent or empty, or if
\* the data section gives one of the custom names a non-empty value that is
\* not a str; otherwise it succeeds with the stage holding exactly these two
\* sections.
C31_FailsWithoutSectionOrName == [][C31_AmendedStep]_vars

\* a configure succeeded on a config that names the timestamp field, and the
\* stage holds the two sections
C31_Witness ==
    /\ pipe.op = "configure"
    /\ pipe.exc = ""
    /\ "timestamp_name" \in Keys(pipe.config["_data"].items)
    /\ HoldsSections(pipe.config, registry["default"].module_object)
    /\ "timestamp_name" \in Keys(registry["default"].module_object.custom_name)
    /\ Lookup(registry["default"].module_object.custom_name, "timestamp_name") = "ts"

----------------------------------------------------------------------------
(* Properties of a pass with a storage stage *)

\* a bridge pass over loadable input and output sections and a storage
\* section with a cache directory, whose input stage delivers the configured
\* ids
BridgePassWithStorage ==
    /\ BridgePassWithRecords
    /\ pipe.config.storage = StorageSection
    /\ pipe.args = <<>>

\* the positions of the calls of a stage operation in the pass
CallsOf(stage) == {i \in 1..Len(pipe.calls) : pipe.calls[i].stage = stage}

\* C32: in a bridge pass with a storage stage and a cache directory
\* configured the collected batch is staged by write_cache before the output
\* stage is invoked, and when the pass ends without a store every collected
\* record has a file in the cache directory.
C32_StagedBeforeOutput ==
    BridgePassWithStorage =>
        /\ \E i \in CallsOf("write_cache") :
              /\ DictEq(pipe.calls[i].arg, pipe.batch)
              /\ \A j \in CallsOf("output") : i < j
        /\ CallsOf("store") = {}
              => \A k \in Keys(pipe.batch) :
                    \E f \in DOMAIN files : f.dir = DirC /\ \E t \in Timestamps :
                        f.name = <<t, "_">> \o k \o <<".json">>

----------------------------------------------------------------------------
(* Output passes over a staged cache *)

\* the record write_cache has staged for id k at timestamp t
StagedRec(t) == Rec(t, "5", "cached")

\* a cache directory that holds the staged files of the pairs <<id, timestamp>> of S
StagedFiles(S) ==
    [f \in {NameFile(DirC, p[1], StagedRec(p[2])) : p \in S} |->
        JsonDump(StagedRec((CHOOSE p \in S : NameFile(DirC, p[1], StagedRec(p[2])) = f)[2]))]

\* a storage stage with a cache and an archive directory, and any number of
\* staged files up to one per timestamp for each configured id
InitDrain ==
    /\ action_detail = (KEY_CACHE :> DirC) @@ (KEY_ARCHIVE :> DirA) @@ (KEY_JUNK :> Unset)
    /\ data_map = <<IdK, IdAK>>
    /\ dirs = {DirC}
    /\ files \in {StagedFiles(S) : S \in SUBSET (Ids \X Timestamps)}
    /\ pc = "idle"
    /\ message = EmptyDict
    /\ todo = EmptyDict
    /\ m = EmptyDict
    /\ mfailed = EmptyDict
    /\ mgood = EmptyDict
    /\ paths = NoPaths
    /\ result = NoResult
    /\ snap = <<>>
    /\ prev = NoResult
    /\ registry = EmptyRegistry
    /\ pipe = NoPass

\* an output pass has read the cache and goes on to the output stage
PassHasRead == result.op = "read_cache" /\ result.exc = ""

\* run_module_pipe_old, output: rc = s.read_cache() begins the pass
PassReadCache ==
    /\ ~PassHasRead
    /\ \E ls \in Listings(FilesIn(files, DirC)) : CallReadCache(ls, TRUE)

\* run_module_pipe_old, output: ro = m.output(rc) on a sink that takes every
\* record, then s.store(ro)
PassSendAndStore ==
    /\ PassHasRead
    /\ CallStore(Send(result.value),
                 (KEY_CACHE :> TRUE) @@ (KEY_ARCHIVE :> TRUE) @@ (KEY_JUNK :> TRUE))

\* repeated output passes, nothing new being staged and no write failing
NextDrain ==
    \/ PassReadCache
    \/ PassSendAndStore
    \/ WriteFilesStep("written")
    \/ CleanCacheStep

SpecDrain == InitDrain /\ [][NextDrain]_vars /\ WF_vars(NextDrain)

\* C33: with nothing new staged and a sink that accepts every record,
\* repeated output passes eventually empty the cache directory, whatever the
\* number of staged files of each record-id.
C33_CacheDrains == <>(FilesIn(files, DirC) = {})

\* a bridge or input pass over a loadable input section whose input stage
\* returns other ids than the ones of the value_register_map
PassWithOtherIds ==
    /\ pipe.op = "run_module_pipe_old"
    /\ pipe.args = <<>>
    /\ pipe.action_name \in {"bridge", "input"}
    /\ pipe.config.input = Section("StdinCollector", "stdin_collector")
    /\ Keys(pipe.batch) # Keys(Lookup(pipe.config["_data"].items, "value_register_map"))

----------------------------------------------------------------------------
(* Properties of store: the records outside the batch *)

\* this step belongs to a call of store
StoreStep == pc \in StorePhases \/ (CallBegins /\ CalledOp = "store")

\* the batch of the call of store this step belongs to
StoreBatch ==
    IF pc \in StorePhases THEN message
    ELSE IF pc' # "idle" THEN message' ELSE result'.arg

\* the file names of the records of a batch
FileNamesOf(batch) == {NameFile(None, e.k, e.v).name : e \in Entries(batch)}

\* the files the step creates, removes or rewrites
Touched ==
    {g \in DOMAIN files \cup DOMAIN files' :
        IF g \in DOMAIN files /\ g \in DOMAIN files' THEN files'[g] # files[g] ELSE TRUE}

C35_Step ==
    StoreStep =>
        \A f \in FilesIn(files, CacheDir) :
            f.name \notin FileNamesOf(StoreBatch) =>
                /\ f \notin Touched
                /\ \A g \in Touched : g.name # f.name

\* C35: store(batch) leaves untouched every cache file whose record is not
\* in the batch: the file stays in the cache directory with its content, and
\* no file of its name is written to the archive or the junk directory.
C35_OthersUntouched == [][C35_Step]_vars

\* store has returned after moving a record of its batch out of the cache,
\* and the cache still holds the file of a record that was not in the batch
C35_Witness ==
    /\ pc = "idle"
    /\ result.op = "store"
    /\ result.exc = ""
    /\ \E e \in Entries(result.arg) :
          /\ NameFile(CacheDir, e.k, e.v) \in DOMAIN result.snap
          /\ NameFile(CacheDir, e.k, e.v) \notin DOMAIN files
    /\ \E f \in FilesIn(files, CacheDir) :
          /\ f.name \notin FileNamesOf(result.arg)
          /\ f \in DOMAIN result.snap
          /\ files[f] = result.snap[f]

----------------------------------------------------------------------------
(* Properties of read_cache: keying *)

\* C36: what read_cache returns under a record-id k is the record of a file
\* that was staged under k; the record of a file staged for another id (one
\* that ends in _k, say) is never returned under k.
C36_KeyedById ==
    (ReadCacheRan /\ result.exc = "") =>
        \A k \in Keys(result.value) :
            \E f \in StagedFor(k) : JsonLoad(files[f]) = Lookup(result.value, k)

\* this step is the dispatch of a storage stage whose module_type has no subtype
PlainStorageDispatched ==
    /\ pipe'.op = "dispatch"
    /\ pipe'.obj.action_type = "storage"
    /\ ModuleTypeOf(pipe'.obj) = <<"storage">>

C37_Step ==
    PlainStorageDispatched =>
        LET obj == pipe'.obj IN
        /\ pipe'.exc \notin {"IndexError", "KeyError"}
        /\ pipe'.action_name \in {"bridge", "output"} /\ ~HasSubscription(obj)
              => /\ pipe'.exc = ""
                 /\ pipe'.value = [seg |-> obj.the_name, method |-> "store"]
        /\ pipe'.action_name = "input"
              => /\ pipe'.exc = ""
                 /\ pipe'.value = NoCallable
                 /\ registry' = registry

\* C37: a storage stage whose module_type is plain storage, without a
\* subtype, is dispatched like an archive: dispatch returns store in the
\* contexts bridge and output and none in input, and never fails for the
\* lack of a subtype.
C37_PlainStorageIsArchive == [][C37_Step]_vars

----------------------------------------------------------------------------
(* The filter stage (module/filter/default_filter.py) *)

\* the inner loop of the merge: m[k][kk] = vv for every item of the datapoint
RECURSIVE MergeDatapoint(_, _)
MergeDatapoint(v, datapoint) ==
    IF datapoint = EmptyDict
    THEN v
    ELSE MergeDatapoint(SetField(v, Head(datapoint).k, Head(datapoint).v), Tail(datapoint))

\* DefaultFilter._merge_message_with_config_filter from the i-th record on,
\* merged being the dict built so far and msg the argument, whose records the
\* loop changes in place: a record-id without a datapoint ends the call
RECURSIVE MergeLoop(_, _, _, _)
MergeLoop(dataconf, msg, merged, i) ==
    IF i > Len(msg)
    THEN [exc |-> "", value |-> merged, message |-> msg]
    ELSE LET k == msg[i].k IN
         IF k \notin Keys(dataconf)
         THEN [exc |-> "FilterModuleException", value |-> EmptyDict, message |-> msg]
         ELSE LET v == MergeDatapoint(msg[i].v, Lookup(dataconf, k)) IN
              MergeLoop(dataconf, [msg EXCEPT ![i].v = v], Put(merged, k, v), i + 1)

\* a call of the merge filter on the filter stage of the segment default
CallMergeMessageWithConfig(msg) ==
    /\ pc = "idle"
    /\ LET obj == registry["default"].module_object
           r == MergeLoop(Lookup(obj.data.items, "value_register_map"), msg, EmptyDict, 1)
       IN  /\ result' = [op |-> "merge_message_with_config", arg |-> msg, exc |-> r.exc,
                         value |-> r.value, snap |-> <<>>]
           /\ message' = r.message
    /\ UNCHANGED <<action_detail, data_map, dirs, files, pc, todo, m, mfailed, mgood,
                   paths, snap, prev, registry, pipe>>

\* the datapoints of a value_register_map: no field, a field no record has,
\* a field every record has, and both
Datapoints ==
    {EmptyDict,
     <<[k |-> "unit", v |-> "C"]>>,
     <<[k |-> ValueName, v |-> "9"]>>,
     <<[k |-> ValueName, v |-> "9"], [k |-> "unit", v |-> "C"]>>}

\* the data sections of the filter stage: a datapoint for k, and one for a_k or none
FilterDataSections ==
    {DataSection(<<[k |-> IdK, v |-> dk]>>) : dk \in Datapoints} \cup
    {DataSection(<<[k |-> IdK, v |-> dk], [k |-> IdAK, v |-> da]>>) :
        dk \in Datapoints, da \in Datapoints}

\* a configured filter stage, handed batches of collected records
InitFilter ==
    /\ action_detail = (KEY_CACHE :> Unset) @@ (KEY_ARCHIVE :> Unset) @@ (KEY_JUNK :> Unset)
    /\ data_map = <<IdK>>
    /\ dirs = {}
    /\ files = <<>>
    /\ pc = "idle"
    /\ message = EmptyDict
    /\ todo = EmptyDict
    /\ m = EmptyDict
    /\ mfailed = EmptyDict
    /\ mgood = EmptyDict
    /\ paths = NoPaths
    /\ result = NoResult
    /\ snap = <<>>
    /\ prev = NoResult
    /\ \E d \in FilterDataSections :
          registry = [EmptyRegistry EXCEPT !["default"] =
              [module_path |-> "default_filter", module_name |-> "DefaultFilter",
               module_object |->
                   [Stage("default", <<"DefaultFilter", "filter", <<"filter">>>>,
                          StageSection(<<"DefaultFilter", "filter", <<"filter">>>>))
                       EXCEPT !.data = d]]]
    /\ pipe = NoPass

NextFilter == \E msg \in CollectedBatches : CallMergeMessageWithConfig(msg)

SpecFilter == InitFilter /\ [][NextFilter]_vars

\* the merge filter has returned
MergeReturned == result.op = "merge_message_with_config" /\ result.exc = ""

\* the datapoint the stage is configured with for a record-id
DatapointOf(k) ==
    Lookup(Lookup(registry["default"].module_object.data.items, "value_register_map"), k)

\* C38: the merge filter gives the message precedence over the config: a
\* field that a record and the datapoint of its record-id both have keeps the
\* value of the record, and a field only the datapoint has is added with the
\* value of the datapoint.
C38_MessagePrecedence ==
    MergeReturned =>
        \A e \in Entries(result.arg) :
            LET out == Lookup(result.value, e.k) IN
            /\ \A f \in DOMAIN e.v : out[f] = e.v[f]
            /\ \A f \in Keys(DatapointOf(e.k)) \ DOMAIN e.v :
                  out[f] = Lookup(DatapointOf(e.k), f)

====
